---------------------------- MODULE Spec2Model ----------------------------
(***************************************************************************)
(* Model of the document classification engine                           *)
(* (core/classifier.py, config/classification_rules.py).                  *)
(*                                                                         *)
(* Strings that the code searches (content, keywords, rule names) are      *)
(* sequences of one-character strings, so that lower(), concatenation and  *)
(* the substring test `k in content` are computed rather than assumed.     *)
(* Codes and categories, which the code only copies and compares, are      *)
(* plain strings.  Scores are exact rationals [n, d] in lowest terms with  *)
(* d > 0: the float arithmetic of the code is modelled without rounding.   *)
(***************************************************************************)
EXTENDS Integers, Sequences, FiniteSets, TLC

VARIABLES
  rules,          \* self.rules: the rule table, a sequence of [code, rule] in dict order
  loaded_rules,   \* the table as it was when the module was imported
  lastOp,         \* the operation whose outcome is with the caller, "none" when idle
  csv_in,         \* the file handed to the last classify_csv_file call
  text,           \* text argument of the last classify_document invocation
  filename,       \* filename argument of the last classify_document invocation
  scored,         \* what _calculate_match_score returned, rule by rule, in that invocation
  result,         \* the outcome of the last classification call (return value or exception)
  lookup,         \* the last category lookup: its argument, if any, and its outcome
  used_before,    \* TRUE when the classifier has already served an earlier call
  threads,        \* per thread: the frame of its classify_document call (locals, position)
  probe,          \* the last application of a pure helper: its inputs and what it returned
  job,            \* the renaming stage: the output folder and the file processed last
  files_list,     \* DocumentClassifierApp.files_list: the selected paths, in order
  processing,     \* DocumentClassifierApp.processing
  last_start,     \* how the last call of _start_processing ended
  after_queue,    \* the callbacks handed to root.after(0, ...), oldest first
  result_tree,    \* the rows of the results table
  output_dir,     \* the names that exist in the chosen output folder
  runs            \* the frames of the background threads, in order of start

\* the application: its fields, the Tk event queue and the background threads
app == <<files_list, processing, last_start, after_queue, result_tree, output_dir, runs>>

vars == <<rules, loaded_rules, lastOp, csv_in, text, filename, scored, result, lookup,
          used_before, threads, probe, job, app>>

\* the state outside the sequential classifier
others == <<threads, probe, job, app>>

----------------------------------------------------------------------------
(* Bounds *)

MaxRules == 2
MaxTextLen == 2
MaxThreads == 2
MaxCols == 2
MaxFiles == 3
MaxRuns == 2
MaxOldRows == 1

----------------------------------------------------------------------------
(* Strings *)

Chars == {"a", "b", "A"}

\* the upper-case letters and their lower-case forms
LowerCase ==
  ("A" :> "a") @@ ("B" :> "b") @@ ("C" :> "c") @@ ("D" :> "d") @@ ("E" :> "e") @@
  ("F" :> "f") @@ ("G" :> "g") @@ ("H" :> "h") @@ ("I" :> "i") @@ ("J" :> "j") @@
  ("K" :> "k") @@ ("L" :> "l") @@ ("M" :> "m") @@ ("N" :> "n") @@ ("O" :> "o") @@
  ("P" :> "p") @@ ("Q" :> "q") @@ ("R" :> "r") @@ ("S" :> "s") @@ ("T" :> "t") @@
  ("U" :> "u") @@ ("V" :> "v") @@ ("W" :> "w") @@ ("X" :> "x") @@ ("Y" :> "y") @@
  ("Z" :> "z")

Lower(ch) == IF ch \in DOMAIN LowerCase THEN LowerCase[ch] ELSE ch

\* str.lower()
LowerStr(s) == IF Len(s) = 0 THEN <<>> ELSE [i \in 1..Len(s) |-> Lower(s[i])]

\* Python's `k in c` on strings
Contains(c, k) == \E i \in 0..(Len(c) - Len(k)) : SubSeq(c, i + 1, i + Len(k)) = k

StringsUpTo(n) == UNION {[1..k -> Chars] : k \in 0..n}

RECURSIVE JoinSpace(_)
\* ' '.join(parts)
JoinSpace(parts) ==
  IF Len(parts) = 0 THEN <<>>
  ELSE IF Len(parts) = 1 THEN parts[1]
  ELSE parts[1] \o <<" ">> \o JoinSpace(Tail(parts))

----------------------------------------------------------------------------
(* Exact rational arithmetic for the scores *)

RECURSIVE GCD(_, _)
GCD(a, b) == IF b = 0 THEN a ELSE GCD(b, a % b)

Abs(x) == IF x < 0 THEN -x ELSE x

Rat(n, d) == LET g == GCD(Abs(n), d) IN [n |-> n \div g, d |-> d \div g]

RAdd(p, q) == Rat(p.n * q.d + q.n * p.d, p.d * q.d)
RMul(p, q) == Rat(p.n * q.n, p.d * q.d)
RLess(p, q) == p.n * q.d < q.n * p.d
RMin(p, q) == IF RLess(q, p) THEN q ELSE p

Zero == Rat(0, 1)
One == Rat(1, 1)
\* the threshold test with 0.05 in place of 0.1
Threshold_Low == Rat(1, 20)

Threshold == Rat(1, 10)
NameBonus == Rat(1, 5)

----------------------------------------------------------------------------
(* Python values and outcomes *)

PyInt(n) == [int |-> n]
PyStr(s) == [str |-> s]
IsNumber(v) == "int" \in DOMAIN v

None == [none |-> TRUE]

Return(v) == [exc |-> "none", val |-> v]
Raise(e) == [exc |-> e]

----------------------------------------------------------------------------
(* The scorer: DocumentClassifier._calculate_match_score *)

\* KeywordStep inserting the keyword at the front of matched_keywords
KeywordStep_Prepend(acc, content, keyword, n) ==
  IF Contains(content, LowerStr(keyword))
  THEN [matched |-> <<keyword>> \o acc.matched,
        total |-> RAdd(acc.total, Rat(1, n))]
  ELSE acc

\* One iteration of the keyword loop: acc = [matched, total], n = len(keywords)
KeywordStep(acc, content, keyword, n) ==
  IF Contains(content, LowerStr(keyword))
  THEN [matched |-> Append(acc.matched, keyword),
        total |-> RAdd(acc.total, Rat(1, n))]
  ELSE acc

RECURSIVE KeywordLoop(_, _, _, _, _)
\* the iterations lo..hi of the keyword loop, in order; the range is halved
\* so that the evaluation of a long list stays shallow
KeywordLoop(content, keywords, lo, hi, acc) ==
  IF lo > hi THEN acc
  ELSE IF lo = hi THEN KeywordStep(acc, content, keywords[lo], Len(keywords))
  ELSE KeywordLoop(content, keywords, ((lo + hi) \div 2) + 1, hi,
                   KeywordLoop(content, keywords, lo, (lo + hi) \div 2, acc))

\* FinalScore adding the name bonus before the priority multiplication
FinalScore_BonusFirst(total, priority, name, content) ==
  LET bonused == IF Contains(content, LowerStr(name)) THEN RAdd(total, NameBonus)
                 ELSE total
  IN RMul(bonused, Rat(priority, 100))

\* FinalScore without the bonus for the rule's name
FinalScore_NoBonus(total, priority, name, content) ==
  RMul(total, Rat(priority, 100))

\* FinalScore multiplying by (100 - priority) / 100.0
FinalScore_Complement(total, priority, name, content) ==
  LET scaled == RMul(total, Rat(100 - priority, 100))
  IN IF Contains(content, LowerStr(name)) THEN RAdd(scaled, NameBonus) ELSE scaled

\* FinalScore multiplying by priority / 1000.0
FinalScore_PerMille(total, priority, name, content) ==
  LET scaled == RMul(total, Rat(priority, 1000))
  IN IF Contains(content, LowerStr(name)) THEN RAdd(scaled, NameBonus) ELSE scaled

\* total_score *= priority / 100.0, then the name bonus
FinalScore(total, priority, name, content) ==
  LET scaled == RMul(total, Rat(priority, 100))
  IN IF Contains(content, LowerStr(name)) THEN RAdd(scaled, NameBonus) ELSE scaled

\* calculate_match_score computing 1.0 / len(keywords) once, ahead of the loop
calculate_match_score_Hoisted(content, rule) ==
  LET keywords == IF "keywords" \in DOMAIN rule THEN rule.keywords ELSE <<>>
      priority == IF "priority" \in DOMAIN rule THEN rule.priority ELSE PyInt(1)
      loop == KeywordLoop(content, keywords, 1, Len(keywords),
                          [matched |-> <<>>, total |-> Zero])
  IN IF Len(keywords) = 0 THEN Raise("ZeroDivisionError")
     ELSE IF ~IsNumber(priority) THEN Raise("TypeError")
     ELSE IF "name" \notin DOMAIN rule THEN Raise("KeyError")
     ELSE Return([score |-> FinalScore(loop.total, priority.int, rule.name, content),
                  matched |-> loop.matched])

calculate_match_score(content, rule) ==
  LET keywords == IF "keywords" \in DOMAIN rule THEN rule.keywords ELSE <<>>
      priority == IF "priority" \in DOMAIN rule THEN rule.priority ELSE PyInt(1)
      loop == KeywordLoop(content, keywords, 1, Len(keywords),
                          [matched |-> <<>>, total |-> Zero])
  IN IF ~IsNumber(priority) THEN Raise("TypeError")
     ELSE IF "name" \notin DOMAIN rule THEN Raise("KeyError")
     ELSE Return([score |-> FinalScore(loop.total, priority.int, rule.name, content),
                  matched |-> loop.matched])

----------------------------------------------------------------------------
(* The classifier: DocumentClassifier.classify_document *)

\* content = f"{filename} {text}".lower()
Content(t, f) == LowerStr(f \o <<" ">> \o t)

\* UpdateBest forgetting `highest_score = score`
UpdateBest_NoScore(st, code, rule, sm) ==
  IF RLess(st.highest_score, sm.score)
  THEN [st EXCEPT !.best_match = [code |-> code, rule |-> rule,
                                  matched_keywords |-> sm.matched]]
  ELSE st

\* UpdateBest comparing with >= : a later rule of equal score replaces the best
UpdateBest_GE(st, code, rule, sm) ==
  IF ~RLess(sm.score, st.highest_score)
  THEN [st EXCEPT !.highest_score = sm.score,
                  !.best_match = [code |-> code, rule |-> rule,
                                  matched_keywords |-> sm.matched]]
  ELSE st

\* UpdateBest comparing the score with 0.1 instead of with highest_score: the
\* last rule above the threshold replaces the best
UpdateBest_AboveThreshold(st, code, rule, sm) ==
  IF RLess(Rat(1, 10), sm.score)
  THEN [st EXCEPT !.highest_score = sm.score,
                  !.best_match = [code |-> code, rule |-> rule,
                                  matched_keywords |-> sm.matched]]
  ELSE st

\* the update of best_match / highest_score after one rule has been scored
UpdateBest(st, code, rule, sm) ==
  IF RLess(st.highest_score, sm.score)
  THEN [st EXCEPT !.highest_score = sm.score,
                  !.best_match = [code |-> code, rule |-> rule,
                                  matched_keywords |-> sm.matched]]
  ELSE st

\* the body of the rule loop for the i-th entry of the table
RuleStep(rs, content, i, st) ==
  LET out == calculate_match_score(content, rs[i].rule)
  IN IF out.exc # "none" THEN [st EXCEPT !.exc = out.exc]
     ELSE UpdateBest([st EXCEPT !.scored = Append(@, out.val)],
                     rs[i].code, rs[i].rule, out.val)

RECURSIVE RuleLoop(_, _, _, _, _)
\* the iterations lo..hi of the rule loop, in order, until one raises; the
\* range is halved so that the evaluation of a long table stays shallow
RuleLoop(rs, content, lo, hi, st) ==
  IF lo > hi \/ st.exc # "none" THEN st
  ELSE IF lo = hi THEN RuleStep(rs, content, lo, st)
  ELSE RuleLoop(rs, content, ((lo + hi) \div 2) + 1, hi,
                RuleLoop(rs, content, lo, (lo + hi) \div 2, st))

UnclassifiedDocument ==
  <<"U", "n", "c", "l", "a", "s", "s", "i", "f", "i", "e", "d", " ",
    "D", "o", "c", "u", "m", "e", "n", "t">>

FallbackWith(confidence) ==
  Return([code |-> "9999", name |-> UnclassifiedDocument, confidence |-> confidence,
          category |-> "general", matched_keywords |-> <<>>])

RuleResult(best_match, confidence) ==
  IF "category" \notin DOMAIN best_match.rule THEN Raise("KeyError")
  ELSE Return([code |-> best_match.code,
               name |-> best_match.rule.name,
               confidence |-> confidence,
               category |-> best_match.rule.category,
               matched_keywords |-> best_match.matched_keywords])

\* BuildResult whose fallback reports the score reached instead of 0.1
BuildResult_ScoreAsConfidence(best_match, highest_score) ==
  IF best_match # None /\ RLess(Threshold, highest_score)
  THEN RuleResult(best_match, RMin(highest_score, One))
  ELSE FallbackWith(highest_score)

\* BuildResult with the threshold test `highest_score >= 0.1`
BuildResult_GE(best_match, highest_score) ==
  IF best_match # None /\ ~RLess(highest_score, Threshold)
  THEN RuleResult(best_match, RMin(highest_score, One))
  ELSE FallbackWith(Rat(1, 10))

\* BuildResult without the clamp min(highest_score, 1.0)
BuildResult_NoClamp(best_match, highest_score) ==
  IF best_match # None /\ RLess(Threshold, highest_score)
  THEN RuleResult(best_match, highest_score)
  ELSE FallbackWith(Rat(1, 10))

\* the return statement: the winning rule above the threshold, else the fallback
BuildResult(best_match, highest_score) ==
  IF best_match # None /\ RLess(Threshold, highest_score)
  THEN RuleResult(best_match, RMin(highest_score, One))
  ELSE FallbackWith(Rat(1, 10))

\* [out |-> outcome of the call, scored |-> the scorer's returns in rule order]
classify_document(rs, t, f) ==
  LET st == RuleLoop(rs, Content(t, f), 1, Len(rs),
                     [exc |-> "none", best_match |-> None, highest_score |-> Zero,
                      scored |-> <<>>])
  IN [out |-> IF st.exc # "none" THEN Raise(st.exc)
              ELSE BuildResult(st.best_match, st.highest_score),
      scored |-> st.scored]

\* config.classification_rules.DEFAULT_RULE
DEFAULT_RULE ==
  [code |-> "9999", name |-> UnclassifiedDocument, category |-> "general",
   confidence |-> Rat(1, 10)]

----------------------------------------------------------------------------
(* DocumentClassifier.classify_csv_file *)

\* os.path.basename(file_path): a path is the sequence of its components
Basename(path) == IF Len(path) = 0 THEN <<>> ELSE path[Len(path)]

\* file = [path, readable, columns]: pd.read_csv either raises or yields df.columns
classify_csv_file_NoExcept(rs, file) ==
  LET fname == LowerStr(Basename(file.path))
      headers == LowerStr(JoinSpace(file.columns))
      content == fname \o <<" ">> \o headers
  IN IF file.readable
     THEN [call |-> classify_document(rs, content, fname),
           text |-> content, filename |-> fname]
     ELSE [call |-> [out |-> Raise("Exception"), scored |-> <<>>],
           text |-> <<>>, filename |-> fname]

classify_csv_file(rs, file) ==
  LET fname == LowerStr(Basename(file.path))
      headers == LowerStr(JoinSpace(file.columns))
      content == fname \o <<" ">> \o headers
      tried == classify_document(rs, content, fname)
      fallen == classify_document(rs, <<>>, fname)
  IN IF file.readable /\ tried.out.exc = "none"
     THEN [call |-> tried, text |-> content, filename |-> fname]
     ELSE [call |-> fallen, text |-> <<>>, filename |-> fname]

----------------------------------------------------------------------------
(* Category lookups *)

\* the categories in Python's string order
CategoryOrder ==
  <<"billing", "customer", "data", "financial", "general", "hr", "insurance",
    "legal", "reports">>

\* sorted(list(categories))
Sorted(cats) == SelectSeq(CategoryOrder, LAMBDA c : c \in cats)

HasCategory(rs) == \A i \in 1..Len(rs) : "category" \in DOMAIN rs[i].rule

RECURSIVE FirstSeen(_, _)
\* the categories of the first n rules in the order of their first occurrence
FirstSeen(rs, n) ==
  IF n = 0 THEN <<>>
  ELSE LET before == FirstSeen(rs, n - 1)
       IN IF \E i \in 1..Len(before) : before[i] = rs[n].rule.category
          THEN before ELSE Append(before, rs[n].rule.category)

\* get_supported_categories returning list(categories) without sorting it
get_supported_categories_Unsorted(rs) ==
  IF ~HasCategory(rs) THEN Raise("KeyError")
  ELSE Return(FirstSeen(rs, Len(rs)))

get_supported_categories(rs) ==
  IF ~HasCategory(rs) THEN Raise("KeyError")
  ELSE Return(Sorted({rs[i].rule.category : i \in 1..Len(rs)}))

get_rules_by_category(rs, category) ==
  IF ~HasCategory(rs) THEN Raise("KeyError")
  ELSE Return(SelectSeq(rs, LAMBDA e : e.rule.category = category))

----------------------------------------------------------------------------
(* Rule tables and inputs *)

\* dict keys in insertion order; the order of a table is not the order of its codes
CodeAt == <<"2001", "1001", "4001", "3001", "1002">>

WellFormedPool ==
  { [name |-> <<"b", "b">>, keywords |-> << <<"a">> >>,
     priority |-> PyInt(11), category |-> "financial"],
    [name |-> <<"b", "b">>, keywords |-> << <<"a">>, <<"b">> >>,
     priority |-> PyInt(20), category |-> "financial"],
    [name |-> <<"A">>, keywords |-> << <<"A", "b">>, <<"b">> >>,
     priority |-> PyInt(170), category |-> "billing"],
    [name |-> <<"b">>, keywords |-> << <<"b">>, <<"a">>, <<"b", "a">> >>,
     priority |-> PyInt(100), category |-> "billing"],
    [name |-> <<"a", "a">>, keywords |-> <<>>,
     priority |-> PyInt(100), category |-> "legal"],
    [name |-> <<"b", "a">>, keywords |-> << <<"a", " ", "b">> >>,
     priority |-> PyInt(100), category |-> "legal"],
    [name |-> <<"a", "b">>, keywords |-> << <<" ">> >>,
     priority |-> PyInt(100), category |-> "hr"] }

\* rules that lack a field, or whose priority is not a number
MalformedPool ==
  { [keywords |-> << <<"A", "b">>, <<"b">> >>,
     priority |-> PyInt(170), category |-> "billing"],
    [name |-> <<"A">>,
     priority |-> PyInt(170), category |-> "billing"],
    [name |-> <<"A">>, keywords |-> << <<"A", "b">>, <<"b">> >>,
     category |-> "billing"],
    [name |-> <<"A">>, keywords |-> << <<"A", "b">>, <<"b">> >>,
     priority |-> PyStr("high"), category |-> "billing"] }

ConfigPool ==
  MalformedPool \cup
  { r \in WellFormedPool : r.priority \in {PyInt(11), PyInt(170)} \/ r.keywords = <<>> }

MkTable(rs) ==
  IF Len(rs) = 0 THEN <<>>
  ELSE [i \in 1..Len(rs) |-> [code |-> CodeAt[i], rule |-> rs[i]]]

TablesOver(pool) == { MkTable(rs) : rs \in UNION {[1..k -> pool] : k \in 0..MaxRules} }

Texts == StringsUpTo(MaxTextLen)

FileNames == {<<>>, <<"A">>, <<"b">>}

HeaderNames == {<<"a">>, <<"B">>}

\* df.columns of a file that was read: at least one column, no name twice
ColumnLists ==
  { c \in UNION {[1..k -> HeaderNames] : k \in 1..Cardinality(HeaderNames)} :
      \A i, j \in 1..Len(c) : c[i] = c[j] => i = j }

\* base names of tabular files: those of documents and a two-letter one
CsvBaseNames == FileNames \cup {<<"b", "A">>}

CsvFiles ==
  { [path |-> <<<<"b">>, base>>, readable |-> TRUE, columns |-> c] :
      base \in CsvBaseNames, c \in ColumnLists }
  \cup { [path |-> <<<<"b">>, base>>, readable |-> FALSE, columns |-> <<>>] :
           base \in CsvBaseNames }

LookupCategories == {"billing", "financial", "legal", "hr"}

----------------------------------------------------------------------------
(* The state machine *)

NoCsv == [path |-> <<>>, readable |-> FALSE, columns |-> <<>>]
NoResult == Raise("nocall")
NoLookup == Raise("nocall")

Threads == 1..MaxThreads

\* a thread that is not inside classify_document
IdleFrame == [pc |-> "idle"]

NoProbe == [fn |-> "none"]

NoJob == [stage |-> "none"]

\* nothing has run yet outside the sequential classifier
\* DocumentClassifierApp.__init__: no file selected, nothing running
AppIdle ==
  /\ files_list = <<>>
  /\ processing = FALSE
  /\ last_start = "none"
  /\ after_queue = <<>>
  /\ result_tree = <<>>
  /\ output_dir = {}
  /\ runs = <<>>

OthersIdle ==
  /\ threads = [t \in Threads |-> IdleFrame]
  /\ probe = NoProbe
  /\ job = NoJob
  /\ AppIdle

\* DocumentClassifier.__init__: self.rules = CLASSIFICATION_RULES, whatever it holds
InitOver(pool) ==
  /\ OthersIdle
  /\ rules \in TablesOver(pool)
  /\ loaded_rules = rules
  /\ lastOp = "none"
  /\ csv_in = NoCsv
  /\ text = <<>>
  /\ filename = <<>>
  /\ scored = <<>>
  /\ result = NoResult
  /\ lookup = NoLookup
  /\ used_before = FALSE

Init == InitOver(WellFormedPool)

InitConfig == InitOver(ConfigPool)

\* the table with the entry of the given code moved to the front
MoveToFront(rs, code) ==
  SelectSeq(rs, LAMBDA e : e.code = code) \o SelectSeq(rs, LAMBDA e : e.code # code)

\* ClassifyDocument keeping the last winner at the head of self.rules
ClassifyDocument_MoveToFront(t, f) ==
  LET call == classify_document(rules, t, f)
  IN /\ lastOp = "none"
     /\ lastOp' = "classify_document"
     /\ text' = t
     /\ filename' = f
     /\ scored' = call.scored
     /\ result' = call.out
     /\ csv_in' = NoCsv
     /\ lookup' = NoLookup
     /\ rules' = IF call.out.exc = "none" THEN MoveToFront(rules, call.out.val.code)
                 ELSE rules
     /\ UNCHANGED <<used_before, loaded_rules, others>>

ClassifyDocument(t, f) ==
  LET call == classify_document(rules, t, f)
  IN /\ lastOp = "none"
     /\ lastOp' = "classify_document"
     /\ text' = t
     /\ filename' = f
     /\ scored' = call.scored
     /\ result' = call.out
     /\ csv_in' = NoCsv
     /\ lookup' = NoLookup
     /\ UNCHANGED used_before
     /\ UNCHANGED <<rules, loaded_rules, others>>

ClassifyCsvFile(file) ==
  LET r == classify_csv_file(rules, file)
  IN /\ lastOp = "none"
     /\ lastOp' = "classify_csv_file"
     /\ csv_in' = file
     /\ text' = r.text
     /\ filename' = r.filename
     /\ scored' = r.call.scored
     /\ result' = r.call.out
     /\ lookup' = NoLookup
     /\ UNCHANGED used_before
     /\ UNCHANGED <<rules, loaded_rules, others>>

GetSupportedCategories ==
  /\ lastOp = "none"
  /\ lastOp' = "get_supported_categories"
  /\ lookup' = [out |-> get_supported_categories(rules)]
  /\ csv_in' = NoCsv
  /\ text' = <<>>
  /\ filename' = <<>>
  /\ scored' = <<>>
  /\ result' = NoResult
  /\ UNCHANGED used_before
  /\ UNCHANGED <<rules, loaded_rules, others>>

\* GetRulesByCategory assigning the selection to self.rules before returning it
GetRulesByCategory_InPlace(category) ==
  /\ lastOp = "none"
  /\ lastOp' = "get_rules_by_category"
  /\ lookup' = [category |-> category, out |-> get_rules_by_category(rules, category)]
  /\ rules' = IF lookup'.out.exc = "none" THEN lookup'.out.val ELSE rules
  /\ csv_in' = NoCsv
  /\ text' = <<>>
  /\ filename' = <<>>
  /\ scored' = <<>>
  /\ result' = NoResult
  /\ UNCHANGED used_before
  /\ UNCHANGED <<loaded_rules, others>>

GetRulesByCategory(category) ==
  /\ lastOp = "none"
  /\ lastOp' = "get_rules_by_category"
  /\ lookup' = [category |-> category, out |-> get_rules_by_category(rules, category)]
  /\ csv_in' = NoCsv
  /\ text' = <<>>
  /\ filename' = <<>>
  /\ scored' = <<>>
  /\ result' = NoResult
  /\ UNCHANGED used_before
  /\ UNCHANGED <<rules, loaded_rules, others>>

\* the caller takes the outcome of the call; the classifier is idle again
TakeResult ==
  /\ lastOp # "none"
  /\ lastOp' = "none"
  /\ csv_in' = NoCsv
  /\ text' = <<>>
  /\ filename' = <<>>
  /\ scored' = <<>>
  /\ result' = NoResult
  /\ lookup' = NoLookup
  /\ used_before' = TRUE
  /\ UNCHANGED <<rules, loaded_rules, others>>

Next ==
  \/ \E t \in Texts, f \in FileNames : ClassifyDocument(t, f)
  \/ \E file \in CsvFiles : ClassifyCsvFile(file)
  \/ GetSupportedCategories
  \/ \E category \in LookupCategories : GetRulesByCategory(category)
  \/ TakeResult

Spec == Init /\ [][Next]_vars

SpecConfig == InitConfig /\ [][Next]_vars

----------------------------------------------------------------------------
(* Properties *)

\* a classification call has returned a ClassificationResult
Classified ==
  /\ lastOp \in {"classify_document", "classify_csv_file"}
  /\ result.exc = "none"

RuleIdx == 1..Len(rules)

\* the scorer applied to rule i on content = lowercase(filename + ' ' + text)
Score(i) == calculate_match_score(Content(text, filename), rules[i].rule).val

AboveThreshold(i) == RLess(Threshold, Score(i).score)

IsMaximal(i) == \A j \in RuleIdx : ~RLess(Score(i).score, Score(j).score)

FallbackResult ==
  [code |-> "9999", name |-> UnclassifiedDocument, confidence |-> Rat(1, 10),
   category |-> "general", matched_keywords |-> <<>>]

\* C1: when some rule scores above 0.1, the result carries the code, name and
\* category of a rule of maximal score, that rule's matched keywords, and
\* confidence min(maximal score, 1.0).
C1_BestRuleWins ==
  (Classified /\ \E i \in RuleIdx : AboveThreshold(i)) =>
    \E i \in RuleIdx :
      /\ IsMaximal(i)
      /\ result.val.code = rules[i].code
      /\ result.val.name = rules[i].rule.name
      /\ result.val.category = rules[i].rule.category
      /\ result.val.matched_keywords = Score(i).matched
      /\ result.val.confidence = RMin(Score(i).score, One)

C1_Witness ==
  /\ Classified
  /\ Len(rules) = 2
  /\ AboveThreshold(1)
  /\ RLess(Score(1).score, Score(2).score)
  /\ result.val.code = rules[2].code
  /\ result.val.matched_keywords # <<>>

NonBlank(s) == \E k \in 1..Len(s) : s[k] # " "

\* no keyword and no name of the table is empty or made of spaces only
NonBlankTable ==
  \A i \in RuleIdx :
    /\ NonBlank(rules[i].rule.name)
    /\ \A k \in 1..Len(rules[i].rule.keywords) : NonBlank(rules[i].rule.keywords[k])

C3_StrictThreshold ==
  Classified =>
    \A i \in RuleIdx :
      IsMaximal(i) =>
        /\ Score(i).score = Threshold => result.val = FallbackResult
        /\ RLess(Threshold, Score(i).score) =>
             \E j \in RuleIdx : /\ result.val.code = rules[j].code
                                /\ Score(j).score = Score(i).score

C3_Witness ==
  /\ Classified
  /\ \E i \in RuleIdx : IsMaximal(i) /\ Score(i).score = Threshold
  /\ result.val.code = "9999"

\* C4: among rules of equal maximal score the first in table order wins: the
\* winner scores strictly higher than every rule before it and at least as
\* high as every rule after it.
C4_FirstOfTies ==
  (Classified /\ result.val.code # "9999") =>
    \E i \in RuleIdx :
      /\ result.val.code = rules[i].code
      /\ \A j \in RuleIdx : j < i => RLess(Score(j).score, Score(i).score)
      /\ \A j \in RuleIdx : j > i => ~RLess(Score(i).score, Score(j).score)

C4_Witness ==
  /\ Classified
  /\ Len(rules) = 2
  /\ rules[1].rule # rules[2].rule
  /\ Score(1).score = Score(2).score
  /\ AboveThreshold(1)
  /\ result.val.code = rules[1].code
  /\ result.val.name = rules[1].rule.name

KeywordsOf(i) == rules[i].rule.keywords

Hit(k) == Contains(Content(text, filename), LowerStr(k))

HitCount(i) == Cardinality({k \in 1..Len(KeywordsOf(i)) : Hit(KeywordsOf(i)[k])})

NameHit(i) == Contains(Content(text, filename), LowerStr(rules[i].rule.name))

\* C5: for a rule with keywords the scorer returns
\* (hits / number of keywords) * (priority / 100), plus 0.2 exactly when the
\* lowercased name occurs in the content; the bonus is not multiplied and the
\* score is not clamped.
C5_ScoreFormula ==
  Classified =>
    \A i \in RuleIdx :
      Len(KeywordsOf(i)) > 0 =>
        scored[i].score =
          RAdd(RMul(Rat(HitCount(i), Len(KeywordsOf(i))),
                    Rat(rules[i].rule.priority.int, 100)),
               IF NameHit(i) THEN Rat(1, 5) ELSE Zero)

C5_Witness ==
  /\ Classified
  /\ \E i \in RuleIdx :
       /\ Len(KeywordsOf(i)) > 1
       /\ HitCount(i) = Len(KeywordsOf(i))
       /\ NameHit(i)
       /\ rules[i].rule.priority.int # 100
       /\ RLess(One, scored[i].score)

\* C6: the matched keywords the scorer returns for a rule are the rule's
\* keywords that occur in the content, in the rule's order and spelling; when
\* the content holds every keyword of a rule and none of another rule, that
\* rule's list is its whole keyword list and the other lists are empty.
C6_MatchedInOrder ==
  Classified =>
    /\ \A i \in RuleIdx :
         scored[i].matched = SelectSeq(KeywordsOf(i), LAMBDA k : Hit(k))
    /\ \A i \in RuleIdx :
         ( /\ \A k \in 1..Len(KeywordsOf(i)) : Hit(KeywordsOf(i)[k])
           /\ \A j \in RuleIdx \ {i} :
                \A k \in 1..Len(KeywordsOf(j)) : ~Hit(KeywordsOf(j)[k]) )
         => /\ scored[i].matched = KeywordsOf(i)
            /\ \A j \in RuleIdx \ {i} : scored[j].matched = <<>>

C6_Witness ==
  /\ Classified
  /\ Len(rules) = 2
  /\ Len(KeywordsOf(1)) = 3
  /\ scored[1].matched = KeywordsOf(1)
  /\ Len(KeywordsOf(2)) > 0
  /\ scored[2].matched = <<>>

\* C7: the confidence of every returned result lies in [0, 1], also when the
\* winning rule's raw score exceeds 1.0.
C7_ConfidenceInUnitInterval ==
  Classified =>
    /\ ~RLess(result.val.confidence, Zero)
    /\ ~RLess(One, result.val.confidence)

C7_Witness ==
  /\ Classified
  /\ \E i \in RuleIdx : /\ result.val.code = rules[i].code
                        /\ RLess(One, scored[i].score)
  /\ result.val.confidence = One

RequiredFields == {"name", "keywords", "priority", "category"}

WellFormedRule(rule) ==
  /\ RequiredFields \subseteq DOMAIN rule
  /\ IsNumber(rule.priority)

WellFormedTable(rs) == \A i \in 1..Len(rs) : WellFormedRule(rs[i].rule)

ClassifyCalled == lastOp \in {"classify_document", "classify_csv_file"}

\* C8: on a well-formed table every classification call returns a
\* ClassificationResult and every scorer call in it returns a score: no call
\* ends in an exception.
C8_TotalOnWellFormedTables ==
  (ClassifyCalled /\ WellFormedTable(rules)) =>
    /\ result.exc = "none"
    /\ Len(scored) = Len(rules)
    /\ \/ result.val = FallbackResult
       \/ \E i \in RuleIdx : result.val.code = rules[i].code

C8_Witness ==
  /\ ClassifyCalled
  /\ WellFormedTable(rules)
  /\ Len(rules) = 2
  /\ KeywordsOf(1) = <<>>
  /\ result.exc = "none"
  /\ result.val.code = rules[2].code

\* a rule without keywords, priority or name, or with a priority that is no number
MalformedRule(rule) ==
  \/ ~({"name", "keywords", "priority"} \subseteq DOMAIN rule)
  \/ ~IsNumber(rule.priority)

MalformedTable(rs) == \E i \in 1..Len(rs) : MalformedRule(rs[i].rule)

\* C9: a malformed rule is rejected when the table is loaded: no
\* classification call is ever served on a table that holds one, so none
\* scores it with a default in place of the missing field and none raises.
C9_MalformedRejectedAtLoad ==
  /\ MalformedTable(rules) => ~ClassifyCalled
  /\ ClassifyCalled => result.exc = "none"

\* C10: whatever calls the classifier served before, classify_document returns
\* what a fresh classifier on the loaded table returns for the same arguments.
C10_HistoryIndependent ==
  ClassifyCalled => result = classify_document(loaded_rules, text, filename).out

C10_Witness ==
  /\ lastOp = "classify_document"
  /\ used_before
  /\ Len(rules) = 2
  /\ Score(1).score = Score(2).score
  /\ AboveThreshold(1)
  /\ result.val.code = rules[1].code

----------------------------------------------------------------------------
(* classify_document called from several threads on one classifier.  The  *)
(* names of the function body (content, best_match, highest_score, the    *)
(* loop position) live in the frame of each call; self.rules is shared.   *)

ConcPool ==
  { r \in WellFormedPool : r.priority \in {PyInt(20), PyInt(170)} \/ Len(r.keywords) = 3 }

ConcCalls ==
  { [text |-> <<"a">>, filename |-> <<>>],
    [text |-> <<"b">>, filename |-> <<"A">>],
    [text |-> <<"b", "b">>, filename |-> <<>>] }

InitConc ==
  /\ rules \in TablesOver(ConcPool)
  /\ loaded_rules = rules
  /\ lastOp = "none"
  /\ csv_in = NoCsv
  /\ text = <<>>
  /\ filename = <<>>
  /\ scored = <<>>
  /\ result = NoResult
  /\ lookup = NoLookup
  /\ used_before = FALSE
  /\ OthersIdle

sequential == <<rules, loaded_rules, lastOp, csv_in, text, filename, scored, result,
                lookup, used_before>>

\* some other thread is in the middle of its rule loop
OtherMidLoop(t) ==
  \E u \in Threads \ {t} : threads[u].pc = "loop" /\ threads[u].i > 1

\* entry of classify_document: content, best_match = None, highest_score = 0.0
Enter(t, c) ==
  /\ threads[t].pc = "idle"
  /\ threads' = [threads EXCEPT ![t] =
       [pc |-> "loop", text |-> c.text, filename |-> c.filename,
        content |-> Content(c.text, c.filename), i |-> 1,
        best_match |-> None, highest_score |-> Zero,
        overlapped |-> OtherMidLoop(t)]]
  /\ UNCHANGED <<sequential, probe, job, app>>

\* the frame after one iteration of the rule loop, or the exception it raised
Iteration(frame, rs) ==
  LET out == calculate_match_score(frame.content, rs[frame.i].rule)
  IN IF out.exc # "none"
     THEN [pc |-> "done", text |-> frame.text, filename |-> frame.filename,
           overlapped |-> frame.overlapped, out |-> Raise(out.exc)]
     ELSE UpdateBest([frame EXCEPT !.i = @ + 1],
                     rs[frame.i].code, rs[frame.i].rule, out.val)

\* Iterate keeping best_match and highest_score on the classifier instead of
\* in the frame: every thread reads and writes the same pair
Iterate_OnInstance(t) ==
  /\ threads[t].pc = "loop"
  /\ threads[t].i <= Len(rules)
  /\ LET shared == threads[1]
         mine == [threads[t] EXCEPT
                    !.best_match = IF shared.pc = "loop" THEN shared.best_match ELSE @,
                    !.highest_score = IF shared.pc = "loop" THEN shared.highest_score
                                      ELSE @]
         after == Iteration(mine, rules)
     IN threads' = [u \in Threads |->
          IF u = t THEN after
          ELSE IF u = 1 /\ shared.pc = "loop" /\ after.pc = "loop"
               THEN [shared EXCEPT !.best_match = after.best_match,
                                   !.highest_score = after.highest_score]
               ELSE threads[u]]
  /\ UNCHANGED <<sequential, probe, job, app>>

\* one iteration of `for code, rule in self.rules.items()`
Iterate(t) ==
  /\ threads[t].pc = "loop"
  /\ threads[t].i <= Len(rules)
  /\ threads' = [threads EXCEPT ![t] = Iteration(threads[t], rules)]
  /\ UNCHANGED <<sequential, probe, job, app>>

\* the loop is over: the return statement
Leave(t) ==
  /\ threads[t].pc = "loop"
  /\ threads[t].i > Len(rules)
  /\ threads' = [threads EXCEPT ![t] =
       [pc |-> "done", text |-> threads[t].text, filename |-> threads[t].filename,
        overlapped |-> threads[t].overlapped,
        out |-> BuildResult(threads[t].best_match, threads[t].highest_score)]]
  /\ UNCHANGED <<sequential, probe, job, app>>

\* the caller of thread t has its result; the thread may call again
Resume(t) ==
  /\ threads[t].pc = "done"
  /\ threads' = [threads EXCEPT ![t] = IdleFrame]
  /\ UNCHANGED <<sequential, probe, job, app>>

NextConc ==
  \/ \E t \in Threads, c \in ConcCalls : Enter(t, c)
  \/ \E t \in Threads : Iterate(t)
  \/ \E t \in Threads : Leave(t)
  \/ \E t \in Threads : Resume(t)

SpecConc == InitConc /\ [][NextConc]_vars

\* C11: however the calls of several threads interleave, each call returns
\* what its own text and filename give when the call runs alone.
C11_CallsDoNotInterfere ==
  \A t \in Threads :
    threads[t].pc = "done" =>
      threads[t].out = classify_document(rules, threads[t].text, threads[t].filename).out

C11_Witness ==
  /\ Len(rules) = 2
  /\ threads[1].pc = "loop"
  /\ threads[1].i = 2
  /\ threads[1].best_match # None
  /\ threads[2].pc = "done"
  /\ threads[2].overlapped
  /\ threads[2].out.val.code = rules[2].code
  /\ threads[1].best_match.code = rules[1].code
  /\ classify_document(rules, threads[1].text, threads[1].filename).out.val.code
       = rules[1].code

----------------------------------------------------------------------------
\* C12: no operation of the classifier changes the rule table: after any
\* sequence of calls the codes, their order and every rule's name, keywords,
\* priority and category are those of the table that was loaded.
C12_RuleTableNeverChanges ==
  /\ rules = loaded_rules
  /\ {rules[i].code : i \in 1..Len(rules)} = {CodeAt[i] : i \in 1..Len(loaded_rules)}

C12_Witness ==
  /\ used_before
  /\ lastOp = "get_rules_by_category"
  /\ Len(rules) = 2
  /\ lookup.out.exc = "none"
  /\ Len(lookup.out.val) = 1
  /\ rules = loaded_rules

----------------------------------------------------------------------------
(* The tabular heuristic: CSVProcessor.analyze_csv and _detect_csv_type *)

financial_keywords ==
  <<
    <<"a", "m", "o", "u", "n", "t">>,
    <<"p", "r", "i", "c", "e">>,
    <<"c", "o", "s", "t">>,
    <<"t", "o", "t", "a", "l">>,
    <<"b", "a", "l", "a", "n", "c", "e">>,
    <<"p", "a", "y", "m", "e", "n", "t">>,
    <<"i", "n", "v", "o", "i", "c", "e">>,
    <<"t", "r", "a", "n", "s", "a", "c", "t", "i", "o", "n">> >>

contact_keywords ==
  <<
    <<"n", "a", "m", "e">>,
    <<"e", "m", "a", "i", "l">>,
    <<"p", "h", "o", "n", "e">>,
    <<"a", "d", "d", "r", "e", "s", "s">>,
    <<"c", "u", "s", "t", "o", "m", "e", "r">>,
    <<"c", "l", "i", "e", "n", "t">>,
    <<"c", "o", "n", "t", "a", "c", "t">> >>

inventory_keywords ==
  <<
    <<"p", "r", "o", "d", "u", "c", "t">>,
    <<"i", "t", "e", "m">>,
    <<"s", "k", "u">>,
    <<"q", "u", "a", "n", "t", "i", "t", "y">>,
    <<"s", "t", "o", "c", "k">>,
    <<"i", "n", "v", "e", "n", "t", "o", "r", "y">> >>

sales_keywords ==
  <<
    <<"s", "a", "l", "e", "s">>,
    <<"r", "e", "v", "e", "n", "u", "e">>,
    <<"o", "r", "d", "e", "r">>,
    <<"p", "u", "r", "c", "h", "a", "s", "e">>,
    <<"s", "o", "l", "d">>,
    <<"p", "r", "o", "f", "i", "t">> >>

employee_keywords ==
  <<
    <<"e", "m", "p", "l", "o", "y", "e", "e">>,
    <<"s", "t", "a", "f", "f">>,
    <<"p", "a", "y", "r", "o", "l", "l">>,
    <<"s", "a", "l", "a", "r", "y">>,
    <<"d", "e", "p", "a", "r", "t", "m", "e", "n", "t">> >>

\* the scores dict, in insertion order
Topics ==
  << [type |-> "financial_data", keywords |-> financial_keywords],
     [type |-> "customer_data", keywords |-> contact_keywords],
     [type |-> "inventory_data", keywords |-> inventory_keywords],
     [type |-> "sales_data", keywords |-> sales_keywords],
     [type |-> "employee_data", keywords |-> employee_keywords] >>

\* TopicScore counting the hits without dividing by the number of keywords
TopicScore_Raw(keywords, columns_str, filename_lower) ==
  Rat(Cardinality({k \in 1..Len(keywords) :
        Contains(columns_str, keywords[k]) \/ Contains(filename_lower, keywords[k])}), 1)

\* TopicScore looking for the keywords in the column names only
TopicScore_ColumnsOnly(keywords, columns_str, filename_lower) ==
  Rat(Cardinality({k \in 1..Len(keywords) : Contains(columns_str, keywords[k])}),
      Len(keywords))

\* sum(1 for keyword in keywords if keyword in columns_str or keyword in
\* filename_lower) / len(keywords)
TopicScore(keywords, columns_str, filename_lower) ==
  Rat(Cardinality({k \in 1..Len(keywords) :
        Contains(columns_str, keywords[k]) \/ Contains(filename_lower, keywords[k])}),
      Len(keywords))

RECURSIVE BestType_LastMax(_, _, _)
\* BestType keeping the last of the topics that share the maximum
BestType_LastMax(scores, i, best) ==
  IF i > Len(scores) THEN best
  ELSE BestType_LastMax(scores, i + 1,
         IF ~RLess(scores[i].score, scores[best].score) THEN i ELSE best)

RECURSIVE BestType(_, _, _)
\* max(scores, key=scores.get): the first key, in dict order, of the largest value
BestType(scores, i, best) ==
  IF i > Len(scores) THEN best
  ELSE BestType(scores, i + 1, IF RLess(scores[best].score, scores[i].score) THEN i ELSE best)

\* [scores |-> the scores dict, type, confidence |-> the tuple returned]
detect_csv_type(columns, fname) ==
  LET filename_lower == LowerStr(fname)
      columns_str == LowerStr(JoinSpace(columns))
      scores == [i \in 1..Len(Topics) |->
                   [type |-> Topics[i].type,
                    score |-> TopicScore(Topics[i].keywords, columns_str, filename_lower)]]
      best == BestType(scores, 2, 1)
      best_score == scores[best].score
  IN IF RLess(best_score, Threshold)
     THEN [scores |-> scores, type |-> "general_data", confidence |-> Rat(1, 10)]
     ELSE [scores |-> scores, type |-> scores[best].type,
           confidence |-> RMin(RMul(best_score, Rat(2, 1)), One)]

\* the CSVAnalysisResult of a file that could not be read or analysed
AnalysisFailed ==
  [success |-> FALSE, columns |-> <<>>, column_count |-> 0, scores |-> <<>>,
   detected_type |-> "unknown", confidence |-> Zero]

\* file = [path, readable, columns]; df is None when no encoding option reads it
analyze_csv(file) ==
  IF ~file.readable THEN AnalysisFailed
  ELSE LET d == detect_csv_type(file.columns, Basename(file.path))
       IN [success |-> TRUE, columns |-> file.columns,
           column_count |-> Len(file.columns), scores |-> d.scores,
           detected_type |-> d.type, confidence |-> d.confidence]

HeaderWords ==
  {
    <<"c", "u", "s", "t", "o", "m", "e", "r", "_", "n", "a", "m", "e">>,
    <<"e", "m", "a", "i", "l">>,
    <<"p", "h", "o", "n", "e">>,
    <<"a", "d", "d", "r", "e", "s", "s">>,
    <<"A", "m", "o", "u", "n", "t">>,
    <<"i", "t", "e", "m">>,
    <<"o", "r", "d", "e", "r">>,
    <<"i", "d">> }

TabularFileNames ==
  {
    <<"c", "o", "n", "t", "a", "c", "t", "s", ".", "c", "s", "v">>,
    <<"S", "a", "l", "e", "s", ".", "C", "S", "V">>,
    <<"d", "a", "t", "a", ".", "c", "s", "v">>,
    <<"p", "a", "y", "r", "o", "l", "l", "_", "t", "o", "t", "a", "l", "_", "b", "a", "l", "a", "n", "c", "e", "_", "c", "o", "s", "t", ".", "c", "s", "v">> }

ContactColumns ==
  <<
    <<"c", "u", "s", "t", "o", "m", "e", "r", "_", "n", "a", "m", "e">>,
    <<"e", "m", "a", "i", "l">>,
    <<"p", "h", "o", "n", "e">>,
    <<"a", "d", "d", "r", "e", "s", "s">> >>

\* df.columns: up to MaxCols distinct headers, or the four contact headers
TabularColumnLists ==
  { c \in UNION {[1..k -> HeaderWords] : k \in 1..MaxCols} :
      \A i, j \in 1..Len(c) : c[i] = c[j] => i = j }
  \cup {ContactColumns}

TabularFiles ==
  { [path |-> <<<<"b">>, base>>, readable |-> TRUE, columns |-> c] :
      base \in TabularFileNames, c \in TabularColumnLists }
  \cup { [path |-> <<<<"b">>, base>>, readable |-> FALSE, columns |-> <<>>] :
           base \in TabularFileNames }

InitCsv ==
  /\ rules = <<>>
  /\ loaded_rules = rules
  /\ lastOp = "none"
  /\ csv_in = NoCsv
  /\ text = <<>>
  /\ filename = <<>>
  /\ scored = <<>>
  /\ result = NoResult
  /\ lookup = NoLookup
  /\ used_before = FALSE
  /\ OthersIdle

AnalyzeCsv(file) ==
  /\ probe = NoProbe
  /\ probe' = [fn |-> "analyze_csv", file |-> file, out |-> analyze_csv(file)]
  /\ UNCHANGED <<sequential, threads, job, app>>

\* the caller takes the returned value; the next call starts afresh
TakeProbe ==
  /\ probe # NoProbe
  /\ probe' = NoProbe
  /\ UNCHANGED <<sequential, threads, job, app>>

NextCsv ==
  \/ \E file \in TabularFiles : AnalyzeCsv(file)
  \/ TakeProbe

SpecCsv == InitCsv /\ [][NextCsv]_vars


----------------------------------------------------------------------------
(* Claims about the tabular heuristic *)

Analysed == probe.fn = "analyze_csv" /\ probe.out.success

\* the number of keywords of topic i occurring in the lower-cased file name
\* or in the lower-cased, space-joined column names, over the topic's size
TopicHits(i) ==
  Cardinality({k \in 1..Len(Topics[i].keywords) :
    \/ Contains(LowerStr(Basename(probe.file.path)), Topics[i].keywords[k])
    \/ Contains(LowerStr(JoinSpace(probe.file.columns)), Topics[i].keywords[k])})

TopicFraction(i) == Rat(TopicHits(i), Len(Topics[i].keywords))

TopicIsMaximal(i) ==
  \A j \in 1..Len(Topics) : ~RLess(TopicFraction(i), TopicFraction(j))

\* C13: every topic's score is hits / size of its keyword list and lies in
\* [0, 1]; when the largest score is below 0.1 the result is general_data
\* with confidence 0.1, otherwise it is a topic of the largest score with
\* confidence min(2 * score, 1).
C13_TabularScoring ==
  Analysed =>
    /\ \A i \in 1..Len(Topics) :
         /\ probe.out.scores[i].score = TopicFraction(i)
         /\ ~RLess(TopicFraction(i), Zero)
         /\ ~RLess(One, TopicFraction(i))
    /\ IF \A i \in 1..Len(Topics) : RLess(TopicFraction(i), Threshold)
       THEN /\ probe.out.detected_type = "general_data"
            /\ probe.out.confidence = Rat(1, 10)
       ELSE \E i \in 1..Len(Topics) :
              /\ TopicIsMaximal(i)
              /\ probe.out.detected_type = Topics[i].type
              /\ probe.out.confidence = RMin(RMul(TopicFraction(i), Rat(2, 1)), One)

\* a file whose best topic has one hit of eight: confidence 1/4, below the cap
C13_Witness ==
  /\ Analysed
  /\ probe.out.detected_type = "financial_data"
  /\ probe.out.confidence = Rat(1, 4)
  /\ TopicHits(1) = 1


\* the six values of the detected type
TabularTypes == {Topics[i].type : i \in 1..Len(Topics)} \cup {"general_data"}

\* C14: a file that cannot be read is analysed as an empty column list scored
\* on the file name alone, so that every analysis has a detected type among
\* the six types and a confidence of at least 0.1.
C14_UnreadableScoredOnFilename ==
  probe.fn = "analyze_csv" =>
    /\ probe.out.detected_type \in TabularTypes
    /\ ~RLess(probe.out.confidence, Rat(1, 10))
    /\ ~probe.file.readable =>
         /\ probe.out.columns = <<>>
         /\ probe.out.detected_type =
              detect_csv_type(<<>>, Basename(probe.file.path)).type
         /\ probe.out.confidence =
              detect_csv_type(<<>>, Basename(probe.file.path)).confidence


----------------------------------------------------------------------------
(* Claims about classify_csv_file, the lookups and the scorer *)

\* C15: for a readable CSV file, classify_csv_file returns what
\* classify_document returns for text = the space-joined column headers and
\* filename = the file's base name.
C15_CsvIsClassifyOfHeaders ==
  (lastOp = "classify_csv_file" /\ csv_in.readable) =>
    result = classify_document(rules, JoinSpace(csv_in.columns),
                               Basename(csv_in.path)).out


----------------------------------------------------------------------------
(* The renaming stage: DocumentClassifierApp._process_single_file *)

Digits == <<"0", "1", "2", "3", "4", "5", "6", "7", "8", "9">>

RECURSIVE DecStr(_)
\* str(n) of a natural number
DecStr(n) ==
  IF n < 10 THEN <<Digits[n + 1]>> ELSE DecStr(n \div 10) \o <<Digits[(n % 10) + 1]>>

RECURSIVE ZeroPad(_, _)
\* the format specs 02d and 03d: zeros on the left up to the width, never cut
ZeroPad(s, width) == IF Len(s) >= width THEN s ELSE ZeroPad(<<"0">> \o s, width)

\* os.path.splitext of a file name: split before its last dot, unless the
\* name has no dot or only dots in front of it
Splitext(name) ==
  LET dots == {i \in 1..Len(name) : name[i] = "."}
      last == CHOOSE i \in dots : \A j \in dots : j <= i
  IN IF dots = {} \/ (\A j \in 1..last : name[j] = ".")
     THEN [base |-> name, ext |-> <<>>]
     ELSE [base |-> SubSeq(name, 1, last - 1), ext |-> SubSeq(name, last, Len(name))]

get_date_string(custom_date, date_format, now) ==
  IF custom_date # <<>> THEN custom_date
  ELSE IF date_format = "YYYY" THEN DecStr(now.year)
  ELSE IF date_format = "YYMM"
    THEN ZeroPad(DecStr(now.year % 100), 2) \o ZeroPad(DecStr(now.month), 2)
  ELSE IF date_format = "YYYYMM" THEN DecStr(now.year) \o ZeroPad(DecStr(now.month), 2)
  ELSE IF date_format = "YYYYMMDD"
    THEN DecStr(now.year) \o ZeroPad(DecStr(now.month), 2) \o ZeroPad(DecStr(now.day), 2)
  ELSE DecStr(now.year)

\* NextFree returning the first numbered name without testing that it is free
NextFree_Unchecked(base, ext, counter, folder) ==
  base \o <<"_">> \o ZeroPad(DecStr(counter), 3) \o ext

RECURSIVE NextFree(_, _, _, _)
\* the while loop of _get_unique_filename
NextFree(base, ext, counter, folder) ==
  LET new_path == base \o <<"_">> \o ZeroPad(DecStr(counter), 3) \o ext
  IN IF new_path \notin folder THEN new_path
     ELSE NextFree(base, ext, counter + 1, folder)

\* _get_unique_filename counting from 0
get_unique_filename_FromZero(filepath, folder) ==
  IF filepath \notin folder THEN filepath
  ELSE NextFree(Splitext(filepath).base, Splitext(filepath).ext, 0, folder)

\* folder: the names that exist in the output folder
get_unique_filename(filepath, folder) ==
  IF filepath \notin folder THEN filepath
  ELSE NextFree(Splitext(filepath).base, Splitext(filepath).ext, 1, folder)

\* f"{code}_{name}_{date_str}.pdf" and its .csv twin; the code is one token
NewFilename(classification, date_str, ext) ==
  <<classification.code, "_">> \o classification.name \o <<"_">> \o date_str \o ext

DotPdf == <<".", "p", "d", "f">>

DotCsv == <<".", "c", "s", "v">>

\* the part shared by _process_pdf_file and _process_csv_file once the file is
\* classified: the new name, made unique in the folder; an exception of the
\* classification propagates
CopyAs(classified, date_str, ext, folder) ==
  IF classified.exc # "none" THEN [error |-> classified.exc]
  ELSE [error |-> "none", classification |-> classified.val, date_str |-> date_str,
        ext |-> ext,
        output |-> get_unique_filename(NewFilename(classified.val, date_str, ext), folder)]

process_pdf_file(rs, file, ocr_text, date_str, folder) ==
  CopyAs(classify_document(rs, ocr_text, Basename(file.path)).out, date_str, DotPdf, folder)

process_csv_file(rs, file, date_str, folder) ==
  CopyAs(classify_csv_file(rs, file).call.out, date_str, DotCsv, folder)

\* [error] or [classification, date_str, ext, output]
process_single_file(rs, file, ocr_text, date_str, folder) ==
  LET ext == LowerStr(Splitext(Basename(file.path)).ext)
  IN IF ext = DotPdf THEN process_pdf_file(rs, file, ocr_text, date_str, folder)
     ELSE IF ext = DotCsv THEN process_csv_file(rs, file, date_str, folder)
     ELSE [error |-> "ValueError"]

RenameTables ==
  { MkTable(<< [name |-> <<"A">>, keywords |-> << <<"A", "b">>, <<"b">> >>,
                priority |-> PyInt(170), category |-> "billing"] >>),
    MkTable(<< [name |-> <<"b", "a">>, keywords |-> << <<"a", " ", "b">> >>,
                priority |-> PyInt(100), category |-> "legal"],
               [name |-> <<"b">>, keywords |-> << <<"b">>, <<"a">>, <<"b", "a">> >>,
                priority |-> PyInt(100), category |-> "billing"] >>) }

\* custom_date_var and date_format_var
DateSettings ==
  { [custom_date |-> <<>>, date_format |-> f] :
      f \in {"YYYY", "YYMM", "YYYYMM", "YYYYMMDD", "other"} }
  \cup { [custom_date |-> <<"Q", "1">>, date_format |-> "YYYY"] }

\* datetime.datetime.now()
Clock == { [year |-> 2024, month |-> 3, day |-> 5], [year |-> 2025, month |-> 11, day |-> 20] }

\* the selected files; a PDF has no columns
InputFiles ==
  { [path |-> <<<<"b">>, <<"A", ".", "P", "D", "F">>>>, readable |-> FALSE, columns |-> <<>>],
    [path |-> <<<<"b">>, <<"b", ".", "c", "s", "v">>>>, readable |-> TRUE,
     columns |-> << <<"a">> >>],
    [path |-> <<<<"b">>, <<"b", ".", "c", "s", "v">>>>, readable |-> FALSE, columns |-> <<>>],
    [path |-> <<<<"b">>, <<"a", ".", "t", "x", "t">>>>, readable |-> FALSE, columns |-> <<>>] }

\* the text the OCR engine extracts; empty when OCR is off or fails
OcrTexts == {<<>>, <<"b">>}

NoFile == [error |-> "nocall"]

\* the name the PDF of InputFiles is given when no text is extracted from it
FirstPdfName(rs, s) ==
  NewFilename(classify_document(rs, <<>>, <<"A", ".", "P", "D", "F">>).out.val,
              get_date_string(s.custom_date, s.date_format,
                              [year |-> 2024, month |-> 3, day |-> 5]),
              DotPdf)

\* what the chosen output folder holds before the run: nothing, a file of the
\* given name, or that file and its second numbered variant
InitialFolders(name) ==
  { {}, {name},
    {name, Splitext(name).base \o <<"_", "0", "0", "2">> \o Splitext(name).ext} }

InitRename ==
  /\ rules \in RenameTables
  /\ loaded_rules = rules
  /\ lastOp = "none"
  /\ csv_in = NoCsv
  /\ text = <<>>
  /\ filename = <<>>
  /\ scored = <<>>
  /\ result = NoResult
  /\ lookup = NoLookup
  /\ used_before = FALSE
  /\ threads = [t \in Threads |-> IdleFrame]
  /\ probe = NoProbe
  /\ AppIdle
  /\ \E s \in DateSettings :
       \E present \in InitialFolders(FirstPdfName(rules, s)) :
         job = [stage |-> "batch", settings |-> s, folder |-> present, existing |-> present,
                count |-> 0, file |-> NoCsv, last |-> NoFile, outputs |-> <<>>]

\* the job after a file was processed with outcome done
AfterFile(j, file, done) ==
  [j EXCEPT !.count = @ + 1,
            !.file = file,
            !.last = done,
            !.existing = j.folder,
            !.outputs = IF done.error = "none" THEN Append(@, done.output) ELSE @,
            !.folder = IF done.error = "none" THEN @ \cup {done.output} ELSE @]

\* one iteration of the loop of _process_files_background
ProcessSingleFile(file, ocr_text, now) ==
  /\ job.stage = "batch"
  /\ job.count < MaxFiles
  /\ job' = AfterFile(job, file,
               process_single_file(rules, file, ocr_text,
                 get_date_string(job.settings.custom_date, job.settings.date_format, now),
                 job.folder))
  /\ UNCHANGED <<sequential, threads, probe, app>>

NextRename ==
  \E file \in InputFiles, ocr_text \in OcrTexts, now \in Clock :
    ProcessSingleFile(file, ocr_text, now)

SpecRename == InitRename /\ [][NextRename]_vars

----------------------------------------------------------------------------
(* Claims about the renaming stage *)

Processed == job.stage = "batch" /\ job.last.error = "none"

\* {code}_{name}_{date}.{ext} of the last processed file
PlainName ==
  <<job.last.classification.code, "_">> \o job.last.classification.name
    \o <<"_">> \o job.last.date_str \o job.last.ext

\* {code}_{name}_{date}_{00n}.{ext}, for n below ten
NumberedName(n) ==
  <<job.last.classification.code, "_">> \o job.last.classification.name
    \o <<"_">> \o job.last.date_str \o <<"_", "0", "0", Digits[n + 1]>> \o job.last.ext

Candidate(n) == IF n = 0 THEN PlainName ELSE NumberedName(n)

\* the extension follows the input's type
ExtOfInput ==
  LET b == Basename(job.file.path)
  IN /\ job.last.ext \in {DotPdf, DotCsv}
     /\ Len(b) >= 4
     /\ job.last.ext = LowerStr(SubSeq(b, Len(b) - 3, Len(b)))

\* C16 as stated: every successfully processed file is written as
\* {code}_{name}_{date}.{ext}.
C16_OutputNamePlain ==
  Processed => (job.last.output = PlainName /\ ExtOfInput)

\* C16 amended: the output is named {code}_{name}_{date}.{ext} when no file
\* of that name exists in the output folder; otherwise it is named
\* {code}_{name}_{date}_{NNN}.{ext} for the least counter NNN >= 001 whose
\* name does not exist.
C16_OutputNameFirstFree ==
  Processed =>
    /\ ExtOfInput
    /\ \E n \in 0..(MaxFiles + 2) :
         /\ job.last.output = Candidate(n)
         /\ Candidate(n) \notin job.existing
         /\ \A m \in 0..(n - 1) : Candidate(m) \in job.existing

\* the third file of a name: the plain name and _001 are taken
C16_Witness ==
  /\ Processed
  /\ job.last.output = Candidate(2)
  /\ {Candidate(0), Candidate(1)} \subseteq job.existing


\* position of a category in Python's string order
Rank(c) == CHOOSE i \in 1..Len(CategoryOrder) : CategoryOrder[i] = c

CodesOf(entries) == {entries[i].code : i \in 1..Len(entries)}

CodesIn(c) == {rules[i].code : i \in {j \in 1..Len(rules) : rules[j].rule.category = c}}

\* C17: get_supported_categories returns every category of the table once,
\* in ascending order; get_rules_by_category(c) returns exactly the entries
\* of category c (none for a category that is not in the table); the lookups
\* over the supported categories partition the codes of the table.
C17_LookupsAreExact ==
  /\ lastOp = "get_supported_categories" =>
       /\ lookup.out.exc = "none"
       /\ {lookup.out.val[i] : i \in 1..Len(lookup.out.val)} =
            {rules[i].rule.category : i \in 1..Len(rules)}
       /\ \A i, j \in 1..Len(lookup.out.val) :
            i < j => Rank(lookup.out.val[i]) < Rank(lookup.out.val[j])
       /\ UNION {CodesOf(get_rules_by_category(rules, lookup.out.val[i]).val) :
                   i \in 1..Len(lookup.out.val)} = CodesOf(rules)
       /\ \A i, j \in 1..Len(lookup.out.val) :
            i # j => CodesOf(get_rules_by_category(rules, lookup.out.val[i]).val)
                       \cap CodesOf(get_rules_by_category(rules, lookup.out.val[j]).val) = {}
  /\ lastOp = "get_rules_by_category" =>
       /\ lookup.out.exc = "none"
       /\ CodesOf(lookup.out.val) = CodesIn(lookup.category)
       /\ \A i \in 1..Len(lookup.out.val) :
            \E j \in 1..Len(rules) : lookup.out.val[i] = rules[j]
       /\ Len(lookup.out.val) = Cardinality(CodesIn(lookup.category))

\* a table whose two categories are stored in descending order
C17_Witness ==
  /\ lastOp = "get_supported_categories"
  /\ Len(rules) = 2
  /\ rules[1].rule.category = "legal"
  /\ rules[2].rule.category = "billing"
  /\ lookup.out = Return(<<"billing", "legal">>)


----------------------------------------------------------------------------
(* The scorer applied to pairs of contents *)

\* contents as classify_document builds them
ScoreContents == { Content(t, f) : t \in Texts, f \in FileNames }

\* the scorer reads nothing but its arguments
InitScore == InitCsv

ScorePair(rule, c1, c2) ==
  /\ probe = NoProbe
  /\ probe' = [fn |-> "calculate_match_score", rule |-> rule, c1 |-> c1, c2 |-> c2,
               out1 |-> calculate_match_score(c1, rule),
               out2 |-> calculate_match_score(c2, rule)]
  /\ UNCHANGED <<sequential, threads, job, app>>

NextScore ==
  \/ \E rule \in WellFormedPool, c1 \in ScoreContents, c2 \in ScoreContents :
       ScorePair(rule, c1, c2)
  \/ TakeProbe

SpecScore == InitScore /\ [][NextScore]_vars

\* the keywords (by position) and the name of the probed rule found in c
HitsIn(c) ==
  {k \in 1..Len(probe.rule.keywords) : Contains(c, LowerStr(probe.rule.keywords[k]))}

NameIn(c) == Contains(c, LowerStr(probe.rule.name))

\* c2 has every hit of c1 and one more, and the name if c1 has it
OneMoreKeyword ==
  /\ probe.fn = "calculate_match_score"
  /\ HitsIn(probe.c1) \subseteq HitsIn(probe.c2)
  /\ HitsIn(probe.c1) # HitsIn(probe.c2)
  /\ NameIn(probe.c1) => NameIn(probe.c2)

\* C18: when content c2 holds every keyword of the rule that c1 holds, the
\* rule's name if c1 holds it, and at least one more keyword, the rule's
\* score on c2 is not lower than its score on c1.
C18_ScorerMonotone ==
  OneMoreKeyword =>
    /\ probe.out1.exc = "none"
    /\ probe.out2.exc = "none"
    /\ ~RLess(probe.out2.val.score, probe.out1.val.score)

\* one hit against two hits of a two-keyword rule, the score growing
C18_Witness ==
  /\ OneMoreKeyword
  /\ Cardinality(HitsIn(probe.c1)) = 1
  /\ Cardinality(HitsIn(probe.c2)) = 2
  /\ RLess(probe.out1.val.score, probe.out2.val.score)


\* C19: when several topics share the largest score, the detected type is
\* the first of them in the order financial_data, customer_data,
\* inventory_data, sales_data, employee_data.
C19_FirstTopicOfTies ==
  (Analysed /\ probe.out.detected_type # "general_data") =>
    \E i \in 1..Len(Topics) :
      /\ <<"financial_data", "customer_data", "inventory_data", "sales_data",
           "employee_data">>[i] = probe.out.detected_type
      /\ TopicIsMaximal(i)
      /\ \A j \in 1..(i - 1) : ~TopicIsMaximal(j)

\* inventory and sales tie at the top with one hit of six each
C19_Witness ==
  /\ Analysed
  /\ TopicIsMaximal(3)
  /\ TopicIsMaximal(4)
  /\ TopicHits(3) = 1
  /\ probe.out.detected_type = "inventory_data"


----------------------------------------------------------------------------
(* The shipped rule table: config/classification_rules.py *)

\* the dict literal, entry by entry in source order
CLASSIFICATION_RULES ==
  <<
    [ code |-> "1001",
      rule |->
        [ name |-> <<"F", "i", "n", "a", "n", "c", "i", "a", "l", " ", "S", "t", "a", "t", "e", "m", "e", "n", "t">>,
          keywords |-> <<
            <<"f", "i", "n", "a", "n", "c", "i", "a", "l", " ", "s", "t", "a", "t", "e", "m", "e", "n", "t">>,
            <<"s", "t", "a", "t", "e", "m", "e", "n", "t", " ", "o", "f", " ", "f", "i", "n", "a", "n", "c", "i", "a", "l", " ", "p", "o", "s", "i", "t", "i", "o", "n">>,
            <<"b", "a", "l", "a", "n", "c", "e", " ", "s", "h", "e", "e", "t">>,
            <<"i", "n", "c", "o", "m", "e", " ", "s", "t", "a", "t", "e", "m", "e", "n", "t">>,
            <<"p", "r", "o", "f", "i", "t", " ", "a", "n", "d", " ", "l", "o", "s", "s">>,
            <<"c", "a", "s", "h", " ", "f", "l", "o", "w", " ", "s", "t", "a", "t", "e", "m", "e", "n", "t">>,
            <<"f", "i", "n", "a", "n", "c", "i", "a", "l", " ", "r", "e", "p", "o", "r", "t">> >>,
          priority |-> PyInt(150),
          category |-> "financial" ] ],
    [ code |-> "1002",
      rule |->
        [ name |-> <<"I", "n", "c", "o", "m", "e", " ", "S", "t", "a", "t", "e", "m", "e", "n", "t">>,
          keywords |-> <<
            <<"i", "n", "c", "o", "m", "e", " ", "s", "t", "a", "t", "e", "m", "e", "n", "t">>,
            <<"p", "r", "o", "f", "i", "t", " ", "a", "n", "d", " ", "l", "o", "s", "s", " ", "s", "t", "a", "t", "e", "m", "e", "n", "t">>,
            <<"p", "&", "l">>,
            <<"e", "a", "r", "n", "i", "n", "g", "s", " ", "r", "e", "p", "o", "r", "t">>,
            <<"r", "e", "v", "e", "n", "u", "e", " ", "s", "t", "a", "t", "e", "m", "e", "n", "t">>,
            <<"o", "p", "e", "r", "a", "t", "i", "n", "g", " ", "i", "n", "c", "o", "m", "e">> >>,
          priority |-> PyInt(140),
          category |-> "financial" ] ],
    [ code |-> "1003",
      rule |->
        [ name |-> <<"B", "a", "l", "a", "n", "c", "e", " ", "S", "h", "e", "e", "t">>,
          keywords |-> <<
            <<"b", "a", "l", "a", "n", "c", "e", " ", "s", "h", "e", "e", "t">>,
            <<"s", "t", "a", "t", "e", "m", "e", "n", "t", " ", "o", "f", " ", "f", "i", "n", "a", "n", "c", "i", "a", "l", " ", "p", "o", "s", "i", "t", "i", "o", "n">>,
            <<"a", "s", "s", "e", "t", "s", " ", "a", "n", "d", " ", "l", "i", "a", "b", "i", "l", "i", "t", "i", "e", "s">>,
            <<"s", "h", "a", "r", "e", "h", "o", "l", "d", "e", "r", "s", " ", "e", "q", "u", "i", "t", "y">> >>,
          priority |-> PyInt(140),
          category |-> "financial" ] ],
    [ code |-> "1004",
      rule |->
        [ name |-> <<"C", "a", "s", "h", " ", "F", "l", "o", "w", " ", "S", "t", "a", "t", "e", "m", "e", "n", "t">>,
          keywords |-> <<
            <<"c", "a", "s", "h", " ", "f", "l", "o", "w", " ", "s", "t", "a", "t", "e", "m", "e", "n", "t">>,
            <<"s", "t", "a", "t", "e", "m", "e", "n", "t", " ", "o", "f", " ", "c", "a", "s", "h", " ", "f", "l", "o", "w", "s">>,
            <<"c", "a", "s", "h", " ", "f", "l", "o", "w", " ", "r", "e", "p", "o", "r", "t">>,
            <<"o", "p", "e", "r", "a", "t", "i", "n", "g", " ", "c", "a", "s", "h", " ", "f", "l", "o", "w">> >>,
          priority |-> PyInt(130),
          category |-> "financial" ] ],
    [ code |-> "1005",
      rule |->
        [ name |-> <<"B", "u", "d", "g", "e", "t", " ", "R", "e", "p", "o", "r", "t">>,
          keywords |-> <<
            <<"b", "u", "d", "g", "e", "t">>,
            <<"b", "u", "d", "g", "e", "t", " ", "r", "e", "p", "o", "r", "t">>,
            <<"f", "i", "n", "a", "n", "c", "i", "a", "l", " ", "b", "u", "d", "g", "e", "t">>,
            <<"a", "n", "n", "u", "a", "l", " ", "b", "u", "d", "g", "e", "t">>,
            <<"b", "u", "d", "g", "e", "t", " ", "a", "n", "a", "l", "y", "s", "i", "s">> >>,
          priority |-> PyInt(120),
          category |-> "financial" ] ],
    [ code |-> "2001",
      rule |->
        [ name |-> <<"C", "o", "n", "t", "r", "a", "c", "t">>,
          keywords |-> <<
            <<"c", "o", "n", "t", "r", "a", "c", "t">>,
            <<"a", "g", "r", "e", "e", "m", "e", "n", "t">>,
            <<"s", "e", "r", "v", "i", "c", "e", " ", "a", "g", "r", "e", "e", "m", "e", "n", "t">>,
            <<"t", "e", "r", "m", "s", " ", "a", "n", "d", " ", "c", "o", "n", "d", "i", "t", "i", "o", "n", "s">>,
            <<"l", "e", "g", "a", "l", " ", "a", "g", "r", "e", "e", "m", "e", "n", "t">>,
            <<"p", "a", "r", "t", "i", "e", "s", " ", "a", "g", "r", "e", "e">> >>,
          priority |-> PyInt(160),
          category |-> "legal" ] ],
    [ code |-> "2002",
      rule |->
        [ name |-> <<"N", "o", "n", "-", "D", "i", "s", "c", "l", "o", "s", "u", "r", "e", " ", "A", "g", "r", "e", "e", "m", "e", "n", "t">>,
          keywords |-> <<
            <<"n", "o", "n", "-", "d", "i", "s", "c", "l", "o", "s", "u", "r", "e", " ", "a", "g", "r", "e", "e", "m", "e", "n", "t">>,
            <<"n", "d", "a">>,
            <<"c", "o", "n", "f", "i", "d", "e", "n", "t", "i", "a", "l", "i", "t", "y", " ", "a", "g", "r", "e", "e", "m", "e", "n", "t">>,
            <<"c", "o", "n", "f", "i", "d", "e", "n", "t", "i", "a", "l", " ", "i", "n", "f", "o", "r", "m", "a", "t", "i", "o", "n">>,
            <<"p", "r", "o", "p", "r", "i", "e", "t", "a", "r", "y", " ", "i", "n", "f", "o", "r", "m", "a", "t", "i", "o", "n">> >>,
          priority |-> PyInt(150),
          category |-> "legal" ] ],
    [ code |-> "2003",
      rule |->
        [ name |-> <<"T", "e", "r", "m", "s", " ", "o", "f", " ", "S", "e", "r", "v", "i", "c", "e">>,
          keywords |-> <<
            <<"t", "e", "r", "m", "s", " ", "o", "f", " ", "s", "e", "r", "v", "i", "c", "e">>,
            <<"t", "e", "r", "m", "s", " ", "o", "f", " ", "u", "s", "e">>,
            <<"u", "s", "e", "r", " ", "a", "g", "r", "e", "e", "m", "e", "n", "t">>,
            <<"s", "e", "r", "v", "i", "c", "e", " ", "t", "e", "r", "m", "s">>,
            <<"w", "e", "b", "s", "i", "t", "e", " ", "t", "e", "r", "m", "s">> >>,
          priority |-> PyInt(130),
          category |-> "legal" ] ],
    [ code |-> "3001",
      rule |->
        [ name |-> <<"A", "n", "n", "u", "a", "l", " ", "R", "e", "p", "o", "r", "t">>,
          keywords |-> <<
            <<"a", "n", "n", "u", "a", "l", " ", "r", "e", "p", "o", "r", "t">>,
            <<"y", "e", "a", "r", "l", "y", " ", "r", "e", "p", "o", "r", "t">>,
            <<"y", "e", "a", "r", " ", "e", "n", "d", " ", "r", "e", "p", "o", "r", "t">>,
            <<"a", "n", "n", "u", "a", "l", " ", "s", "u", "m", "m", "a", "r", "y">>,
            <<"b", "u", "s", "i", "n", "e", "s", "s", " ", "r", "e", "v", "i", "e", "w">> >>,
          priority |-> PyInt(140),
          category |-> "reports" ] ],
    [ code |-> "3002",
      rule |->
        [ name |-> <<"M", "o", "n", "t", "h", "l", "y", " ", "R", "e", "p", "o", "r", "t">>,
          keywords |-> <<
            <<"m", "o", "n", "t", "h", "l", "y", " ", "r", "e", "p", "o", "r", "t">>,
            <<"m", "o", "n", "t", "h", " ", "e", "n", "d", " ", "r", "e", "p", "o", "r", "t">>,
            <<"m", "o", "n", "t", "h", "l", "y", " ", "s", "u", "m", "m", "a", "r", "y">>,
            <<"p", "e", "r", "f", "o", "r", "m", "a", "n", "c", "e", " ", "r", "e", "p", "o", "r", "t">>,
            <<"s", "t", "a", "t", "u", "s", " ", "r", "e", "p", "o", "r", "t">> >>,
          priority |-> PyInt(130),
          category |-> "reports" ] ],
    [ code |-> "3003",
      rule |->
        [ name |-> <<"P", "r", "o", "j", "e", "c", "t", " ", "R", "e", "p", "o", "r", "t">>,
          keywords |-> <<
            <<"p", "r", "o", "j", "e", "c", "t", " ", "r", "e", "p", "o", "r", "t">>,
            <<"p", "r", "o", "j", "e", "c", "t", " ", "s", "t", "a", "t", "u", "s">>,
            <<"p", "r", "o", "j", "e", "c", "t", " ", "s", "u", "m", "m", "a", "r", "y">>,
            <<"m", "i", "l", "e", "s", "t", "o", "n", "e", " ", "r", "e", "p", "o", "r", "t">>,
            <<"p", "r", "o", "g", "r", "e", "s", "s", " ", "r", "e", "p", "o", "r", "t">> >>,
          priority |-> PyInt(120),
          category |-> "reports" ] ],
    [ code |-> "3004",
      rule |->
        [ name |-> <<"M", "a", "r", "k", "e", "t", " ", "R", "e", "s", "e", "a", "r", "c", "h">>,
          keywords |-> <<
            <<"m", "a", "r", "k", "e", "t", " ", "r", "e", "s", "e", "a", "r", "c", "h">>,
            <<"m", "a", "r", "k", "e", "t", " ", "a", "n", "a", "l", "y", "s", "i", "s">>,
            <<"i", "n", "d", "u", "s", "t", "r", "y", " ", "r", "e", "p", "o", "r", "t">>,
            <<"m", "a", "r", "k", "e", "t", " ", "s", "u", "r", "v", "e", "y">>,
            <<"c", "o", "m", "p", "e", "t", "i", "t", "i", "v", "e", " ", "a", "n", "a", "l", "y", "s", "i", "s">> >>,
          priority |-> PyInt(125),
          category |-> "reports" ] ],
    [ code |-> "4001",
      rule |->
        [ name |-> <<"I", "n", "v", "o", "i", "c", "e">>,
          keywords |-> <<
            <<"i", "n", "v", "o", "i", "c", "e">>,
            <<"b", "i", "l", "l">>,
            <<"i", "n", "v", "o", "i", "c", "e", " ", "n", "u", "m", "b", "e", "r">>,
            <<"a", "m", "o", "u", "n", "t", " ", "d", "u", "e">>,
            <<"p", "a", "y", "m", "e", "n", "t", " ", "d", "u", "e">>,
            <<"b", "i", "l", "l", "i", "n", "g">>,
            <<"i", "n", "v", "o", "i", "c", "e", " ", "d", "a", "t", "e">> >>,
          priority |-> PyInt(170),
          category |-> "billing" ] ],
    [ code |-> "4002",
      rule |->
        [ name |-> <<"R", "e", "c", "e", "i", "p", "t">>,
          keywords |-> <<
            <<"r", "e", "c", "e", "i", "p", "t">>,
            <<"p", "a", "y", "m", "e", "n", "t", " ", "r", "e", "c", "e", "i", "p", "t">>,
            <<"t", "r", "a", "n", "s", "a", "c", "t", "i", "o", "n", " ", "r", "e", "c", "e", "i", "p", "t">>,
            <<"p", "r", "o", "o", "f", " ", "o", "f", " ", "p", "a", "y", "m", "e", "n", "t">>,
            <<"r", "e", "c", "e", "i", "v", "e", "d", " ", "p", "a", "y", "m", "e", "n", "t">> >>,
          priority |-> PyInt(160),
          category |-> "billing" ] ],
    [ code |-> "4003",
      rule |->
        [ name |-> <<"P", "u", "r", "c", "h", "a", "s", "e", " ", "O", "r", "d", "e", "r">>,
          keywords |-> <<
            <<"p", "u", "r", "c", "h", "a", "s", "e", " ", "o", "r", "d", "e", "r">>,
            <<"p", "o", " ", "n", "u", "m", "b", "e", "r">>,
            <<"o", "r", "d", "e", "r", " ", "r", "e", "q", "u", "e", "s", "t">>,
            <<"p", "u", "r", "c", "h", "a", "s", "e", " ", "r", "e", "q", "u", "i", "s", "i", "t", "i", "o", "n">>,
            <<"p", "r", "o", "c", "u", "r", "e", "m", "e", "n", "t">> >>,
          priority |-> PyInt(150),
          category |-> "billing" ] ],
    [ code |-> "4004",
      rule |->
        [ name |-> <<"Q", "u", "o", "t", "e">>,
          keywords |-> <<
            <<"q", "u", "o", "t", "e">>,
            <<"q", "u", "o", "t", "a", "t", "i", "o", "n">>,
            <<"e", "s", "t", "i", "m", "a", "t", "e">>,
            <<"p", "r", "i", "c", "i", "n", "g">>,
            <<"p", "r", "o", "p", "o", "s", "a", "l">>,
            <<"c", "o", "s", "t", " ", "e", "s", "t", "i", "m", "a", "t", "e">> >>,
          priority |-> PyInt(130),
          category |-> "billing" ] ],
    [ code |-> "5001",
      rule |->
        [ name |-> <<"E", "m", "p", "l", "o", "y", "e", "e", " ", "C", "o", "n", "t", "r", "a", "c", "t">>,
          keywords |-> <<
            <<"e", "m", "p", "l", "o", "y", "m", "e", "n", "t", " ", "c", "o", "n", "t", "r", "a", "c", "t">>,
            <<"j", "o", "b", " ", "o", "f", "f", "e", "r">>,
            <<"e", "m", "p", "l", "o", "y", "m", "e", "n", "t", " ", "a", "g", "r", "e", "e", "m", "e", "n", "t">>,
            <<"e", "m", "p", "l", "o", "y", "e", "e", " ", "h", "a", "n", "d", "b", "o", "o", "k">>,
            <<"j", "o", "b", " ", "d", "e", "s", "c", "r", "i", "p", "t", "i", "o", "n">> >>,
          priority |-> PyInt(150),
          category |-> "hr" ] ],
    [ code |-> "5002",
      rule |->
        [ name |-> <<"P", "a", "y", "r", "o", "l", "l", " ", "R", "e", "p", "o", "r", "t">>,
          keywords |-> <<
            <<"p", "a", "y", "r", "o", "l", "l">>,
            <<"s", "a", "l", "a", "r", "y", " ", "r", "e", "p", "o", "r", "t">>,
            <<"w", "a", "g", "e", " ", "r", "e", "p", "o", "r", "t">>,
            <<"p", "a", "y", "r", "o", "l", "l", " ", "s", "u", "m", "m", "a", "r", "y">>,
            <<"e", "m", "p", "l", "o", "y", "e", "e", " ", "c", "o", "m", "p", "e", "n", "s", "a", "t", "i", "o", "n">> >>,
          priority |-> PyInt(140),
          category |-> "hr" ] ],
    [ code |-> "5003",
      rule |->
        [ name |-> <<"P", "e", "r", "f", "o", "r", "m", "a", "n", "c", "e", " ", "R", "e", "v", "i", "e", "w">>,
          keywords |-> <<
            <<"p", "e", "r", "f", "o", "r", "m", "a", "n", "c", "e", " ", "r", "e", "v", "i", "e", "w">>,
            <<"e", "m", "p", "l", "o", "y", "e", "e", " ", "e", "v", "a", "l", "u", "a", "t", "i", "o", "n">>,
            <<"a", "n", "n", "u", "a", "l", " ", "r", "e", "v", "i", "e", "w">>,
            <<"p", "e", "r", "f", "o", "r", "m", "a", "n", "c", "e", " ", "a", "p", "p", "r", "a", "i", "s", "a", "l">>,
            <<"e", "m", "p", "l", "o", "y", "e", "e", " ", "a", "s", "s", "e", "s", "s", "m", "e", "n", "t">> >>,
          priority |-> PyInt(130),
          category |-> "hr" ] ],
    [ code |-> "6001",
      rule |->
        [ name |-> <<"I", "n", "s", "u", "r", "a", "n", "c", "e", " ", "P", "o", "l", "i", "c", "y">>,
          keywords |-> <<
            <<"i", "n", "s", "u", "r", "a", "n", "c", "e", " ", "p", "o", "l", "i", "c", "y">>,
            <<"p", "o", "l", "i", "c", "y", " ", "n", "u", "m", "b", "e", "r">>,
            <<"c", "o", "v", "e", "r", "a", "g", "e">>,
            <<"i", "n", "s", "u", "r", "a", "n", "c", "e", " ", "c", "e", "r", "t", "i", "f", "i", "c", "a", "t", "e">>,
            <<"p", "o", "l", "i", "c", "y", " ", "h", "o", "l", "d", "e", "r">> >>,
          priority |-> PyInt(140),
          category |-> "insurance" ] ],
    [ code |-> "6002",
      rule |->
        [ name |-> <<"I", "n", "s", "u", "r", "a", "n", "c", "e", " ", "C", "l", "a", "i", "m">>,
          keywords |-> <<
            <<"i", "n", "s", "u", "r", "a", "n", "c", "e", " ", "c", "l", "a", "i", "m">>,
            <<"c", "l", "a", "i", "m", " ", "n", "u", "m", "b", "e", "r">>,
            <<"c", "l", "a", "i", "m", " ", "f", "o", "r", "m">>,
            <<"d", "a", "m", "a", "g", "e", " ", "r", "e", "p", "o", "r", "t">>,
            <<"i", "n", "c", "i", "d", "e", "n", "t", " ", "r", "e", "p", "o", "r", "t">> >>,
          priority |-> PyInt(150),
          category |-> "insurance" ] ],
    [ code |-> "7001",
      rule |->
        [ name |-> <<"D", "a", "t", "a", " ", "E", "x", "p", "o", "r", "t">>,
          keywords |-> <<
            <<"d", "a", "t", "a", " ", "e", "x", "p", "o", "r", "t">>,
            <<"d", "a", "t", "a", "b", "a", "s", "e", " ", "e", "x", "p", "o", "r", "t">>,
            <<"d", "a", "t", "a", " ", "d", "u", "m", "p">>,
            <<"e", "x", "p", "o", "r", "t", "e", "d", " ", "d", "a", "t", "a">>,
            <<"d", "a", "t", "a", " ", "f", "i", "l", "e">> >>,
          priority |-> PyInt(100),
          category |-> "data" ] ],
    [ code |-> "7002",
      rule |->
        [ name |-> <<"A", "n", "a", "l", "y", "t", "i", "c", "s", " ", "R", "e", "p", "o", "r", "t">>,
          keywords |-> <<
            <<"a", "n", "a", "l", "y", "t", "i", "c", "s">>,
            <<"d", "a", "t", "a", " ", "a", "n", "a", "l", "y", "s", "i", "s">>,
            <<"s", "t", "a", "t", "i", "s", "t", "i", "c", "s">>,
            <<"m", "e", "t", "r", "i", "c", "s">>,
            <<"d", "a", "s", "h", "b", "o", "a", "r", "d">>,
            <<"k", "p", "i">> >>,
          priority |-> PyInt(110),
          category |-> "data" ] ],
    [ code |-> "8001",
      rule |->
        [ name |-> <<"C", "u", "s", "t", "o", "m", "e", "r", " ", "I", "n", "f", "o", "r", "m", "a", "t", "i", "o", "n">>,
          keywords |-> <<
            <<"c", "u", "s", "t", "o", "m", "e", "r">>,
            <<"c", "l", "i", "e", "n", "t">>,
            <<"c", "o", "n", "t", "a", "c", "t", " ", "i", "n", "f", "o", "r", "m", "a", "t", "i", "o", "n">>,
            <<"c", "u", "s", "t", "o", "m", "e", "r", " ", "d", "a", "t", "a">>,
            <<"c", "l", "i", "e", "n", "t", " ", "l", "i", "s", "t">> >>,
          priority |-> PyInt(120),
          category |-> "customer" ] ],
    [ code |-> "8002",
      rule |->
        [ name |-> <<"C", "u", "s", "t", "o", "m", "e", "r", " ", "F", "e", "e", "d", "b", "a", "c", "k">>,
          keywords |-> <<
            <<"c", "u", "s", "t", "o", "m", "e", "r", " ", "f", "e", "e", "d", "b", "a", "c", "k">>,
            <<"s", "u", "r", "v", "e", "y">>,
            <<"r", "e", "v", "i", "e", "w">>,
            <<"c", "u", "s", "t", "o", "m", "e", "r", " ", "s", "a", "t", "i", "s", "f", "a", "c", "t", "i", "o", "n">>,
            <<"t", "e", "s", "t", "i", "m", "o", "n", "i", "a", "l">> >>,
          priority |-> PyInt(110),
          category |-> "customer" ] ] >>

\* "Invoice Number: 12345. Amount Due: $500. Payment Due: 2024-04-01."
InvoiceText ==
  <<"I", "n", "v", "o", "i", "c", "e", " ", "N", "u", "m", "b", "e", "r",
    ":", " ", "1", "2", "3", "4", "5", ".", " ", "A", "m", "o", "u", "n",
    "t", " ", "D", "u", "e", ":", " ", "$", "5", "0", "0", ".", " ", "P",
    "a", "y", "m", "e", "n", "t", " ", "D", "u", "e", ":", " ", "2", "0",
    "2", "4", "-", "0", "4", "-", "0", "1", ".">>

\* "invoice_march.pdf"
InvoiceFilename ==
  <<"i", "n", "v", "o", "i", "c", "e", "_", "m", "a", "r", "c", "h", ".",
    "p", "d", "f">>

\* text without any keyword or rule name of the table
PlainText == <<"h", "e", "l", "l", "o", " ", "1", "2", "3">>

\* documents for the shipped table: the invoice, and every keyword and every
\* rule name of the table as a document's text or as its file name
ShippedDocs ==
  { [text |-> InvoiceText, filename |-> InvoiceFilename],
    [text |-> InvoiceText, filename |-> <<>>],
    [text |-> PlainText, filename |-> InvoiceFilename],
    [text |-> PlainText, filename |-> <<>>],
    [text |-> <<>>, filename |-> <<>>] }
  \cup UNION { { [text |-> CLASSIFICATION_RULES[i].rule.keywords[k], filename |-> <<>>] :
                   k \in 1..Len(CLASSIFICATION_RULES[i].rule.keywords) } :
                 i \in 1..Len(CLASSIFICATION_RULES) }
  \cup UNION { { [text |-> PlainText, filename |-> CLASSIFICATION_RULES[i].rule.keywords[k]] :
                   k \in 1..Len(CLASSIFICATION_RULES[i].rule.keywords) } :
                 i \in 1..Len(CLASSIFICATION_RULES) }
  \cup { [text |-> CLASSIFICATION_RULES[i].rule.name, filename |-> <<>>] :
           i \in 1..Len(CLASSIFICATION_RULES) }

\* DocumentClassifier.__init__ on the shipped configuration
InitShipped ==
  /\ rules = CLASSIFICATION_RULES
  /\ loaded_rules = rules
  /\ lastOp = "none"
  /\ csv_in = NoCsv
  /\ text = <<>>
  /\ filename = <<>>
  /\ scored = <<>>
  /\ result = NoResult
  /\ lookup = NoLookup
  /\ used_before = FALSE
  /\ OthersIdle

NextShipped ==
  \/ \E d \in ShippedDocs : ClassifyDocument(d.text, d.filename)
  \/ TakeResult

SpecShipped == InitShipped /\ [][NextShipped]_vars

----------------------------------------------------------------------------
(* Claims about the shipped rule table *)

\* position of a code in the table
IndexOf(code) == CHOOSE i \in 1..Len(rules) : rules[i].code = code

InvoiceCall ==
  /\ lastOp = "classify_document"
  /\ text = InvoiceText
  /\ filename = InvoiceFilename

\* C20: on the shipped table the invoice text with the file name
\* invoice_march.pdf is classified as 4001, Invoice, billing with confidence
\* 1.0; rule 4001 has priority 170 and seven keywords of which at least
\* four are hit, and its raw score, name bonus included, is above 1.0.
C20_InvoiceScenario ==
  InvoiceCall =>
    /\ result.exc = "none"
    /\ result.val.code = "4001"
    /\ result.val.name = <<"I", "n", "v", "o", "i", "c", "e">>
    /\ result.val.category = "billing"
    /\ result.val.confidence = One
    /\ rules[IndexOf("4001")].rule.priority = PyInt(170)
    /\ Len(rules[IndexOf("4001")].rule.keywords) = 7
    /\ Len(scored[IndexOf("4001")].matched) >= 4
    /\ RLess(One, scored[IndexOf("4001")].score)

C20_Witness ==
  /\ InvoiceCall
  /\ result.exc = "none"
  /\ result.val.code = "4001"
  /\ scored[IndexOf("4001")].score = Rat(82, 70)


----------------------------------------------------------------------------
(* The contacts scenario of the tabular heuristic *)

\* headers customer_name, email, phone, address in a file named contacts.csv
ContactsAnalysed ==
  /\ Analysed
  /\ probe.file.columns = ContactColumns
  /\ Basename(probe.file.path) = <<"c", "o", "n", "t", "a", "c", "t", "s", ".", "c", "s", "v">>

\* C21 as stated: the contacts scenario is detected as customer_data with
\* confidence 1.0, four of the seven contact keywords being counted.
C21_ContactsFourOfSeven ==
  ContactsAnalysed =>
    /\ probe.out.detected_type = "customer_data"
    /\ probe.out.confidence = One
    /\ probe.out.scores[2].score = Rat(4, 7)

\* C21 amended: the contacts scenario is detected as customer_data with
\* confidence min((6/7) * 2, 1.0) = 1.0, six of the seven contact keywords
\* being counted: name, email, phone, address and customer in the headers,
\* contact in the file name, client nowhere.
C21_ContactsSixOfSeven ==
  ContactsAnalysed =>
    /\ probe.out.detected_type = "customer_data"
    /\ probe.out.confidence = One
    /\ probe.out.confidence = RMin(RMul(Rat(6, 7), Rat(2, 1)), One)
    /\ probe.out.scores[2].type = "customer_data"
    /\ probe.out.scores[2].score = Rat(6, 7)
    /\ TopicHits(2) = 6

C21_Witness ==
  /\ ContactsAnalysed
  /\ probe.out.detected_type = "customer_data"
  /\ probe.out.scores[2].score = Rat(6, 7)


\* ---------------------------------------------------------------------------
\* classify_csv_file on a file that cannot be read
\* ---------------------------------------------------------------------------

\* classify_csv_file was called on a file whose read raised
UnreadableCsvClassified ==
  /\ lastOp = "classify_csv_file"
  /\ ~csv_in.readable

\* the lower-cased base name the fallback call receives as its filename
CsvFileName == LowerStr(Basename(csv_in.path))

NoKeywordInFileName ==
  \A i \in RuleIdx : \A k \in 1..Len(KeywordsOf(i)) :
    ~Contains(CsvFileName, LowerStr(KeywordsOf(i)[k]))

C23_FallbackCodeIffFallbackConfidence ==
  (lastOp = "classify_document" /\ result.exc = "none") =>
    /\ (result.val.code = "9999") <=> (result.val.confidence = Rat(1, 10))
    /\ (\E i \in RuleIdx : result.val.code = rules[i].code) =>
         RLess(Rat(1, 10), result.val.confidence)

\* a rule wins with a confidence just above 0.1 while another rule scored
\* exactly 0.1 and below
C23_Witness ==
  /\ lastOp = "classify_document"
  /\ result.exc = "none"
  /\ result.val.code # "9999"
  /\ result.val.confidence = Rat(11, 100)
  /\ \E i \in RuleIdx : Score(i).score = Rat(1, 10)


\* classify_document has returned on the shipped table
ShippedClassified ==
  /\ lastOp = "classify_document"
  /\ rules = CLASSIFICATION_RULES
  /\ result.exc = "none"

\* what one matched keyword of rule i adds: priority / (100 * len(keywords))
PerKeyword(i) ==
  Rat(rules[i].rule.priority.int, 100 * Len(rules[i].rule.keywords))

\* the content holds a keyword or the name of rule i
Touches(i) == HitCount(i) >= 1 \/ NameHit(i)

\* C24: on the shipped table of 25 rules one matched keyword is worth more
\* than 0.1 for every rule, every rule with a matched keyword or with its name
\* in the content scores above 0.1, and classify_document returns the fallback
\* exactly when the content holds no keyword and no name of any rule.
C24_ShippedFallbackIffNothingOccurs ==
  ShippedClassified =>
    /\ Len(rules) = 25
    /\ \A i \in RuleIdx : RLess(Rat(1, 10), PerKeyword(i))
    /\ \A i \in RuleIdx : Touches(i) => RLess(Rat(1, 10), scored[i].score)
    /\ (result.val = FallbackResult) <=> (\A i \in RuleIdx : ~Touches(i))

\* a rule wins on a single keyword with the smallest per-keyword contribution
\* of the table
C24_Witness ==
  /\ ShippedClassified
  /\ \E i \in RuleIdx :
       /\ \A j \in RuleIdx : ~RLess(PerKeyword(j), PerKeyword(i))
       /\ HitCount(i) = 1
       /\ ~NameHit(i)
       /\ scored[i].score = PerKeyword(i)
       /\ result.val.code = rules[i].code


\* the content holds the name of rule i and none of its keywords
NameOnly(i) == NameHit(i) /\ HitCount(i) = 0

\* the name of rule i holds a keyword of rule j
KeywordInName(j, i) ==
  \E k \in 1..Len(KeywordsOf(j)) :
    Contains(LowerStr(rules[i].rule.name), LowerStr(KeywordsOf(j)[k]))

\* C25: on the shipped table every result other than the fallback lists a
\* matched keyword; whenever the content holds a rule's name without any of
\* that rule's keywords, another rule with a matched keyword scores strictly
\* higher, so no rule wins on the name bonus alone: each rule's name holds one
\* of its own keywords, or a keyword of a rule for which one keyword is worth
\* more than the bonus.
C25_ShippedWinnerHasKeyword ==
  ShippedClassified =>
    /\ result.val.code # "9999" => result.val.matched_keywords # <<>>
    /\ \A i \in RuleIdx :
         NameOnly(i) =>
           \E j \in RuleIdx :
             /\ HitCount(j) >= 1
             /\ RLess(scored[i].score, scored[j].score)
    /\ \A i \in RuleIdx :
         \/ KeywordInName(i, i)
         \/ \E j \in RuleIdx : KeywordInName(j, i) /\ RLess(NameBonus, PerKeyword(j))

\* the content holds the name of a rule but none of its keywords, that rule
\* scores the name bonus, and a rule with a matched keyword wins
C25_Witness ==
  /\ ShippedClassified
  /\ \E i \in RuleIdx :
       /\ NameOnly(i)
       /\ scored[i].score = NameBonus
       /\ result.val.code # rules[i].code
  /\ result.val.code # "9999"
  /\ result.val.matched_keywords # <<>>



----------------------------------------------------------------------------
(* The application: the Tk main thread and the background processing thread *)

\* the files a user can select: a PDF and a file of an unsupported type
AppInputs ==
  { [path |-> <<<<"b">>, <<"A", ".", "P", "D", "F">>>>, readable |-> FALSE, columns |-> <<>>],
    [path |-> <<<<"b">>, <<"a", ".", "t", "x", "t">>>>, readable |-> FALSE, columns |-> <<>>] }

AppPaths == { f.path : f \in AppInputs }

FileAt(path) == CHOOSE f \in AppInputs : f.path = path

\* the lists handed to _on_files_dropped: one path, or two that may coincide
DropLists ==
  { <<p>> : p \in AppPaths } \cup { <<p, q>> : p \in AppPaths, q \in AppPaths }

\* what filedialog.askdirectory returns: a folder, or "" when cancelled
OutputFolders == { <<>>, <<"o", "u", "t">> }

\* the date string of the default settings
AppDate == get_date_string(<<>>, "YYYY", [year |-> 2024, month |-> 3, day |-> 5])

\* the table the application classifies with
AppTable ==
  MkTable(<< [name |-> <<"A">>, keywords |-> << <<"A", "b">>, <<"b">> >>,
              priority |-> PyInt(170), category |-> "billing"] >>)

InitApp ==
  /\ rules = AppTable
  /\ loaded_rules = rules
  /\ lastOp = "none"
  /\ csv_in = NoCsv
  /\ text = <<>>
  /\ filename = <<>>
  /\ scored = <<>>
  /\ result = NoResult
  /\ lookup = NoLookup
  /\ used_before = FALSE
  /\ threads = [t \in Threads |-> IdleFrame]
  /\ probe = NoProbe
  /\ job = NoJob
  /\ AppIdle

\* x in s, for a list s
InList(x, s) == \E k \in 1..Len(s) : s[k] = x

RECURSIVE AppendNew(_, _, _)
\* the loop of _on_files_dropped from position k of files
AppendNew(list, files, k) ==
  IF k > Len(files) THEN list
  ELSE AppendNew(IF InList(files[k], list) THEN list ELSE Append(list, files[k]),
                 files, k + 1)

OnFilesDropped(files) ==
  /\ files_list' = AppendNew(files_list, files, 1)
  /\ UNCHANGED <<processing, last_start, after_queue, result_tree, output_dir, runs>>
  /\ UNCHANGED <<sequential, threads, probe, job>>

ClearFiles ==
  /\ files_list' = <<>>
  /\ UNCHANGED <<processing, last_start, after_queue, result_tree, output_dir, runs>>
  /\ UNCHANGED <<sequential, threads, probe, job>>

RowFns == {"_add_result_success", "_add_result_error"}

\* the result rows added or scheduled so far
RowsSoFar == result_tree \o SelectSeq(after_queue, LAMBDA e : e.fn \in RowFns)

Live(frame) == frame.pc # "done"

LiveRuns == SelectSeq(runs, Live)

\* the frame of a thread that was started and has not run yet; started_with
\* and rows_before record the list and the number of result rows at the start
NewRun(output_folder) ==
  [pc |-> "start", output_folder |-> output_folder, total_files |-> 0, processed |-> 0,
   i |-> 0, file_path |-> <<>>, raised |-> "none", started_with |-> files_list,
   rows_before |-> Len(RowsSoFar)]

\* _start_processing that does not test self.processing
StartProcessing_NoBusyTest(output_folder) ==
  /\ Len(LiveRuns) < MaxRuns
  /\ Len(RowsSoFar) <= MaxOldRows
  /\ IF files_list = <<>>
     THEN /\ last_start' = "empty"
          /\ UNCHANGED <<processing, runs>>
     ELSE IF output_folder = <<>>
     THEN /\ last_start' = "cancelled"
          /\ UNCHANGED <<processing, runs>>
     ELSE /\ last_start' = "started"
          /\ processing' = TRUE
          /\ runs' = Append(LiveRuns, NewRun(output_folder))
  /\ UNCHANGED <<files_list, after_queue, result_tree, output_dir>>
  /\ UNCHANGED <<sequential, threads, probe, job>>

\* _start_processing, with the answer of the folder dialog as its input
StartProcessing(output_folder) ==
  /\ Len(LiveRuns) < MaxRuns
  /\ Len(RowsSoFar) <= MaxOldRows
  /\ IF files_list = <<>>
     THEN /\ last_start' = "empty"
          /\ UNCHANGED <<processing, runs>>
     ELSE IF processing
     THEN /\ last_start' = "busy"
          /\ UNCHANGED <<processing, runs>>
     ELSE IF output_folder = <<>>
     THEN /\ last_start' = "cancelled"
          /\ UNCHANGED <<processing, runs>>
     ELSE /\ last_start' = "started"
          /\ processing' = TRUE
          /\ runs' = Append(LiveRuns, NewRun(output_folder))
  /\ UNCHANGED <<files_list, after_queue, result_tree, output_dir>>
  /\ UNCHANGED <<sequential, threads, probe, job>>

\* the first statements of _process_files_background
BgEnter(r) ==
  /\ runs[r].pc = "start"
  /\ runs' = [runs EXCEPT ![r].pc = "loop",
                          ![r].total_files = Len(files_list),
                          ![r].processed = 0]
  /\ UNCHANGED <<files_list, processing, last_start, after_queue, result_tree, output_dir>>
  /\ UNCHANGED <<sequential, threads, probe, job>>

\* Completion without the finally clause: nothing is scheduled when the loop raised
Completion_NoFinally(r, raised) ==
  IF raised = "none"
  THEN << [fn |-> "status_complete", processed |-> runs[r].processed,
           total_files |-> runs[r].total_files],
          [fn |-> "_processing_finished"] >>
  ELSE <<>>

\* the callbacks scheduled once the loop is over, or only the one of the
\* finally clause when the loop raised
Completion(r, raised) ==
  IF raised = "none"
  THEN << [fn |-> "status_complete", processed |-> runs[r].processed,
           total_files |-> runs[r].total_files],
          [fn |-> "_processing_finished"] >>
  ELSE << [fn |-> "_processing_finished"] >>

\* the for statement asks the iterator of self.files_list for its next item;
\* progress = (i / total_files) * 100 raises when total_files is 0
BgIterate(r) ==
  /\ runs[r].pc = "loop"
  /\ IF runs[r].i < Len(files_list)
     THEN IF runs[r].total_files = 0
          THEN /\ runs' = [runs EXCEPT ![r].pc = "done",
                                       ![r].raised = "ZeroDivisionError"]
               /\ after_queue' = after_queue \o Completion(r, "ZeroDivisionError")
          ELSE /\ runs' = [runs EXCEPT ![r].pc = "body",
                                       ![r].file_path = files_list[runs[r].i + 1],
                                       ![r].i = @ + 1]
               /\ UNCHANGED after_queue
     ELSE /\ runs' = [runs EXCEPT ![r].pc = "done"]
          /\ after_queue' = after_queue \o Completion(r, "none")
  /\ UNCHANGED <<files_list, processing, last_start, result_tree, output_dir>>
  /\ UNCHANGED <<sequential, threads, probe, job>>

\* the callback the body of the loop schedules for an outcome of
\* _process_single_file
RowFor(r, path, done) ==
  IF done.error = "none"
  THEN [fn |-> "_add_result_success", original |-> Basename(path),
        new_name |-> done.output]
  ELSE [fn |-> "_add_result_error", original |-> Basename(path), error |-> done.error]

\* AfterBody without the try inside the loop: a failure ends the loop
AfterBody_NoInnerTry(r, done) ==
  IF done.error = "none"
  THEN /\ runs' = [runs EXCEPT ![r].pc = "loop", ![r].processed = @ + 1]
       /\ output_dir' = output_dir \cup {done.output}
       /\ after_queue' = Append(after_queue, RowFor(r, runs[r].file_path, done))
  ELSE /\ runs' = [runs EXCEPT ![r].pc = "done", ![r].raised = done.error]
       /\ output_dir' = output_dir
       /\ after_queue' = after_queue \o Completion(r, done.error)

\* the frame, the folder and the queue after the body of the loop ended with
\* outcome done
AfterBody(r, done) ==
  /\ runs' = [runs EXCEPT ![r].pc = "loop",
                          ![r].processed = IF done.error = "none" THEN @ + 1 ELSE @]
  /\ output_dir' = IF done.error = "none" THEN output_dir \cup {done.output}
                   ELSE output_dir
  /\ after_queue' = Append(after_queue, RowFor(r, runs[r].file_path, done))

\* the body of the loop: _process_single_file inside its try; shutil.copy2
\* may raise
BgProcess(r, copy_ok) ==
  /\ runs[r].pc = "body"
  /\ AfterBody(r, IF copy_ok
                  THEN process_single_file(rules, FileAt(runs[r].file_path), <<>>,
                                           AppDate, output_dir)
                  ELSE IF LowerStr(Splitext(Basename(runs[r].file_path)).ext)
                            \in {DotPdf, DotCsv}
                  THEN [error |-> "OSError"]
                  ELSE [error |-> "ValueError"])
  /\ UNCHANGED <<files_list, processing, last_start, result_tree>>
  /\ UNCHANGED <<sequential, threads, probe, job>>

\* the Tk main loop runs the oldest callback of the queue; the frame of a
\* thread that has ended is dropped when _processing_finished has run
Dispatch ==
  /\ after_queue # <<>>
  /\ after_queue' = Tail(after_queue)
  /\ processing' = IF Head(after_queue).fn = "_processing_finished" THEN FALSE
                   ELSE processing
  /\ result_tree' = IF Head(after_queue).fn \in RowFns
                    THEN Append(result_tree, Head(after_queue))
                    ELSE result_tree
  /\ runs' = IF Head(after_queue).fn = "_processing_finished" THEN LiveRuns ELSE runs
  /\ UNCHANGED <<files_list, last_start, output_dir>>
  /\ UNCHANGED <<sequential, threads, probe, job>>

BgStep ==
  \E r \in 1..Len(runs) :
    \/ BgEnter(r)
    \/ BgIterate(r)
    \/ \E copy_ok \in BOOLEAN : BgProcess(r, copy_ok)

NextApp ==
  \/ \E files \in DropLists : OnFilesDropped(files)
  \/ ClearFiles
  \/ \E output_folder \in OutputFolders : StartProcessing(output_folder)
  \/ Dispatch
  \/ BgStep

SpecApp == InitApp /\ [][NextApp]_vars

\* the application when the user leaves the list alone while a thread runs
NextAppQuiet ==
  \/ \E files \in DropLists : LiveRuns = <<>> /\ OnFilesDropped(files)
  \/ LiveRuns = <<>> /\ ClearFiles
  \/ \E output_folder \in OutputFolders : StartProcessing(output_folder)
  \/ Dispatch
  \/ BgStep

SpecAppQuiet == InitApp /\ [][NextAppQuiet]_vars

\* the background thread keeps running and the main loop keeps serving its queue
SpecAppLive == SpecApp /\ WF_vars(BgStep) /\ WF_vars(Dispatch)


----------------------------------------------------------------------------
(* Claims about the application *)

\* a step that starts a background thread
ThreadStarted == Len(LiveRuns') > Len(LiveRuns)

\* a step in which _start_processing returned without starting a thread
StartRefused ==
  /\ last_start' # last_start
  /\ last_start' \in {"empty", "busy", "cancelled"}

\* C26: _start_processing starts a background thread only when the file list
\* is not empty, processing is False and an output folder was chosen; a start
\* that is refused or cancelled leaves processing, the file list and the
\* threads as they were; at every moment at most one background thread runs.
C26_AtMostOneRun ==
  /\ [](Len(LiveRuns) <= 1)
  /\ [][ThreadStarted =>
           /\ files_list # <<>>
           /\ ~processing
           /\ processing'
           /\ last_start' = "started"
           /\ runs'[Len(runs')].pc = "start"
           /\ runs'[Len(runs')].output_folder # <<>>
           /\ files_list' = files_list]_vars
  /\ [][StartRefused => UNCHANGED <<files_list, processing, runs>>]_vars

\* a start was refused because a thread is running
C26_Witness ==
  /\ last_start = "busy"
  /\ processing
  /\ Len(LiveRuns) = 1
  /\ files_list # <<>>

\* the callback of the finally clause is in the queue
FinishPending == \E k \in 1..Len(after_queue) : after_queue[k].fn = "_processing_finished"

\* C27: from the start of a run until its _processing_finished callback is
\* served, processing is True; every run ends with that callback scheduled
\* and then served, which sets processing back to False, whether its files
\* succeed, fail, or the loop itself raises; once it is False no thread runs
\* and no callback is pending, so the flag refuses no later start.
C27_RunEndsAndFlagReset ==
  /\ []((LiveRuns # <<>> \/ FinishPending) <=> processing)
  /\ processing ~> ~processing

\* a second run, whose loop raised, has ended and its callback is pending
C27_Witness ==
  /\ processing
  /\ FinishPending
  /\ Len(runs) = 1
  /\ runs[1].pc = "done"
  /\ runs[1].raised = "ZeroDivisionError"
  /\ runs[1].rows_before >= 1


----------------------------------------------------------------------------
(* Unique output names within a run *)

\* the path handed to _get_unique_filename for the last processed file
Wanted == NewFilename(job.last.classification, job.last.date_str, job.last.ext)

\* base_NNN.ext of the wanted path
Variant(n) ==
  Splitext(Wanted).base \o <<"_">> \o ZeroPad(DecStr(n), 3) \o Splitext(Wanted).ext

\* C28: _get_unique_filename returns the path it is given when no such file
\* exists, and otherwise the first of base_001.ext, base_002.ext, ... that
\* does not exist; so no copy of a run is written over a file that is in the
\* output folder, and the outputs of a run are pairwise distinct.
C28_UniqueOutputs ==
  Processed =>
    /\ Wanted \notin job.existing => job.last.output = Wanted
    /\ Wanted \in job.existing =>
         \E n \in 1..(MaxFiles + 2) :
           /\ job.last.output = Variant(n)
           /\ \A m \in 1..(n - 1) : Variant(m) \in job.existing
    /\ job.last.output \notin job.existing
    /\ \A a \in 1..Len(job.outputs) : \A b \in 1..Len(job.outputs) :
         a # b => job.outputs[a] # job.outputs[b]
    /\ job.existing \subseteq job.folder

\* the folder held the wanted name and its second variant before the run; the
\* run has written the first variant and now the third, for files of one name
C28_Witness ==
  /\ Processed
  /\ Len(job.outputs) = 2
  /\ job.outputs[1] = Variant(1)
  /\ job.outputs[2] = Variant(3)
  /\ job.last.output = Variant(3)
  /\ {Wanted, Variant(1), Variant(2)} \subseteq job.existing


\* a thread has left _process_files_background and its callback is not yet served
Ended(r) == runs[r].pc = "done"

\* the result rows a run has scheduled
RunRows(r) == SubSeq(RowsSoFar, runs[r].rows_before + 1, Len(RowsSoFar))

SuccessRows(rows) == SelectSeq(rows, LAMBDA e : e.fn = "_add_result_success")

\* C29: when the list is not modified while a thread runs, the run schedules
\* exactly one result row, success or error, for every file of the list, in
\* list order: a file that fails, an unsupported one included, gets an error
\* row, copies nothing and the files after it are still processed; the final
\* processed count is the number of success rows and is at most the total.
C29_OneRowPerFile ==
  /\ Cardinality(output_dir) = Len(SuccessRows(RowsSoFar))
  /\ \A r \in 1..Len(runs) :
       Ended(r) =>
         /\ runs[r].raised = "none"
         /\ runs[r].total_files = Len(runs[r].started_with)
         /\ Len(RunRows(r)) = runs[r].total_files
         /\ \A k \in 1..Len(RunRows(r)) :
              /\ RunRows(r)[k].fn \in RowFns
              /\ RunRows(r)[k].original = Basename(runs[r].started_with[k])
         /\ runs[r].processed = Len(SuccessRows(RunRows(r)))
         /\ runs[r].processed <= runs[r].total_files

\* a run over an unsupported file followed by a PDF ended with an error row
\* and then a success row
C29_Witness ==
  /\ Len(runs) = 1
  /\ Ended(1)
  /\ runs[1].total_files = 2
  /\ runs[1].processed = 1
  /\ Len(RunRows(1)) = 2
  /\ RunRows(1)[1].fn = "_add_result_error"
  /\ RunRows(1)[1].error = "ValueError"
  /\ RunRows(1)[2].fn = "_add_result_success"


\* C30: adding files or clearing the list while a thread runs does not affect
\* the run: under every interleaving the run handles exactly the files that
\* were in the list when it was started, each once and in order, and its loop
\* does not raise.
C30_RunUnaffectedByUi ==
  \A r \in 1..Len(runs) :
    Ended(r) =>
      /\ runs[r].raised = "none"
      /\ Len(RunRows(r)) = Len(runs[r].started_with)
      /\ \A k \in 1..Len(runs[r].started_with) :
           RunRows(r)[k].original = Basename(runs[r].started_with[k])

=============================================================================
